---- MODULE Spec2Model ----
(***************************************************************************)
(* Memory-group subsystem of the nvidia-fs GPUDirect Storage driver        *)
(* (src/src/nvfs-mmap.c): the registry of memory groups, their reference   *)
(* counting, and the teardown / mapping-establishment / mapping-close      *)
(* paths, as interleaved threads.                                          *)
(*                                                                         *)
(* Storage model.  A struct nvfs_io_mgroup lives in a slot (an address).   *)
(* kzalloc picks any slot that is not allocated and zeroes it; kfree only  *)
(* marks the slot not allocated: its bytes stay as they were until the     *)
(* slot is handed out again.  A pointer that outlives the kfree is         *)
(* dangling; an access through it reads and writes whatever the slot       *)
(* holds at that time.                                                     *)
(***************************************************************************)
EXTENDS Integers, Naturals, Sequences, FiniteSets, TLC

(***************************************************************************)
(* Program constants                                                       *)
(***************************************************************************)
PAGE_SIZE == 4096
NVFS_BLOCK_SIZE == 4096
GPU_PAGE_SIZE == 65536
NVFS_MAX_SHADOW_PAGES_ORDER == 12
NVFS_MAX_SHADOW_PAGES == 4096
\* 0x100000000 in the driver; scaled to 0x10000 so that every key and unit
\* identity stays inside TLC's 32-bit integers.  Only "0 < NVFS_MIN_BASE_INDEX
\* <= every key" is used.
NVFS_MIN_BASE_INDEX == 65536
NVFS_START_MAGIC == 1
MAX_TRIES == 10

EINVAL == 22
ENOMEM == 12
EIO == 5
ERESTARTSYS == 512

\* KiB4 of nvfs-mmap.h
KiB4 == 4096
\* the capacity of the hole array of the sparse-read result area; scaled to
\* 2 so that the capacity is reached with three runs of holes
NVFS_MAX_HOLE_REGIONS == 2

\* enum nvfs_block_state
NVFS_IO_FREE == 0
NVFS_IO_ALLOC == 1
NVFS_IO_INIT == 2
NVFS_IO_QUEUED == 3
NVFS_IO_DMA_START == 4
NVFS_IO_DONE == 5
NVFS_IO_DMA_ERROR == 6

\* enum nvfs_io_state (gpu_info.io_state), in the order the comparisons of
\* nvfs-mmap.c rely on
IO_FREE == 0
IO_INIT == 1
IO_READY == 2
IO_IN_PROGRESS == 3
IO_TERMINATE_REQ == 4
IO_TERMINATED == 5
IO_CALLBACK_REQ == 6
IO_CALLBACK_END == 7

(***************************************************************************)
(* Bounds of the model                                                     *)
(***************************************************************************)
NSlots == 2     \* addresses kzalloc can return for a group
NKeys == 2      \* distinct values the random key generator can draw
MaxHeld == 1    \* extra nvfs_mgroup_get_ref a holder takes on its handle
MaxCalls == 5   \* calls of the block state machine on one pin of a buffer

\* mapping lengths tried: accepted ones (one block; one unit; two units), and
\* rejected ones (4 KiB-misaligned below a unit, misaligned above a unit,
\* 4 KiB- but not 64 KiB-aligned above a unit, larger than the maximum region)
Lengths == {4096, 65536, 131072, 5000, 70000, 69632, 16842752}

VM_RW == {"VM_READ", "VM_MAYREAD", "VM_WRITE", "VM_MAYWRITE"}
\* mapping flags tried
FlagSets ==
    {VM_RW \cup {"VM_SHARED"},
     (VM_RW \ {"VM_WRITE"}) \cup {"VM_SHARED"},
     (VM_RW \ {"VM_MAYREAD"}) \cup {"VM_SHARED"},
     VM_RW \cup {"VM_SHARED", "VM_EXEC"},
     VM_RW}
\* the calls of mmap tried: every length with good flags, every flag set with
\* a good length
MmapArgs ==
    {a \in Lengths \X FlagSets : a[2] = VM_RW \cup {"VM_SHARED"} \/ a[1] = 4096}

\* the threads: those that establish and close mappings, and those that
\* look groups up for I/O
Mappers == {"m1", "m2"}
IoThreads == {"io1", "io2"}
Threads == Mappers \cup IoThreads
Slots == 1..NSlots
NULL == 0
Keys == {NVFS_MIN_BASE_INDEX + r : r \in 0..(NKeys - 1)}

\* a division that rounds down
DIV_ROUND_DOWN(n, d) == n \div d

DIV_ROUND_UP(n, d) == (n + d - 1) \div d

(***************************************************************************)
(* State                                                                   *)
(***************************************************************************)
VARIABLES
    heap,       \* live heap objects <<kind, slot, i>>: what kzalloc/kcalloc/
                \* folio_alloc returned and kfree/folio_put has not yet taken back
    mgroup,     \* the bytes of each slot: struct nvfs_io_mgroup
    hash,       \* nvfs_io_mgroup_hash: the slots whose hash_link is linked
    lock,       \* holder of the registry spinlock, or "none"
    th,         \* each thread's position and locals
    hnd,        \* each thread's handle from nvfs_mgroup_get, with its count
    vma,        \* each thread's mapping (struct vm_area_struct)
    gp_wait,    \* per thread in synchronize_rcu: readers it still waits for
    pinref,     \* slots whose pin reference is outstanding
    out,        \* per slot: references handed out minus references released
    dangling    \* pointers whose target was kfree'd while they were held

vars == <<heap, mgroup, hash, lock, th, hnd, vma, gp_wait, pinref, out, dangling>>

\* the sparse-read result area of a group (nvfs_io_sparse_data): the number
\* of holes and the hole array, hole[k + 1] being hole[k] of the code
ZeroSparse ==
    [nholes |-> 0,
     hole |-> [k \in 1..NVFS_MAX_HOLE_REGIONS |-> [start |-> 0, npages |-> 0]]]

\* struct nvfs_io embedded in the group (nvfs_mgroup->nvfsio), zeroed
ZeroIo ==
    [op |-> "READ", nvfs_active_blocks_start |-> 0, nvfs_active_blocks_end |-> 0,
     ret |-> 0, length |-> 0, gpu_page_offset |-> 0, check_sparse |-> FALSE,
     state |-> "NVFS_IO_META_CLEAN"]

\* kzalloc(sizeof(struct nvfs_io_mgroup)): every field zero.  `calls` is not
\* a field of the structure: it counts the calls of the block state machine
\* since the buffer was pinned.
ZeroGroup ==
    [base_index |-> 0, ref |-> 0, io_state |-> IO_FREE,
     nvfs_blocks_count |-> 0, nvfs_folios_count |-> 0,
     nvfs_folios |-> <<>>, nvfs_metadata |-> <<>>, cpu_base_vaddr |-> 0,
     nvfsio |-> ZeroIo, sparse |-> ZeroSparse, calls |-> 0, dma_ref |-> 0]

\* kcalloc'ed struct nvfs_io_metadata
ZeroMeta == [nvfs_start_magic |-> 0, nvfs_state |-> NVFS_IO_FREE, folio |-> NULL, folio_offset |-> 0]

\* a thread outside every entry point.  `net` counts, for the call the thread
\* is in, the references it took or was handed minus those it released;
\* `probes` counts the keys the call has probed.  For the calls of the block
\* state machine, `args` holds the arguments of the call, `exit` the check
\* at which it stopped and `blk` the block it examined last.
IdleThread ==
    [pc |-> "idle", cont |-> "idle", op |-> "none",
     nvfs_mgroup |-> NULL, nvfs_new_mgroup |-> NULL, cur |-> NULL,
     base_index |-> 0, tries |-> 0, probes |-> 0, ret |-> 0,
     length |-> 0, vm_flags |-> {}, gpu_rc |-> 0, net |-> 0,
     args |-> <<>>, exit |-> "none", blk |-> -1,
     may_sleep |-> TRUE, rcu |-> "none", locals |-> <<>>]

NoVma == [vm_private_data |-> NULL, mapped |-> FALSE]

Init ==
    /\ heap = {}
    /\ mgroup = [s \in Slots |-> ZeroGroup]
    /\ hash = {}
    /\ lock = "none"
    /\ th = [t \in Threads |-> IdleThread]
    /\ hnd = [t \in Threads |-> [mg |-> NULL, n |-> 0]]
    /\ vma = [t \in Threads |-> NoVma]
    /\ gp_wait = [t \in Threads |-> {}]
    /\ pinref = {}
    /\ out = [s \in Slots |-> 0]
    /\ dangling = {}

Obj(kind, s, i) == <<kind, s, i>>
GroupObj(s) == Obj("mgroup", s, 0)
Allocated(s) == GroupObj(s) \in heap

\* a thread is inside rcu_read_lock()/rcu_read_unlock() of nvfs_mgroup_get
InRcuRead(t) == th[t].pc = "get_inc"

(***************************************************************************)
(* Reference counting                                                      *)
(***************************************************************************)
\* atomic_inc(&mgroup->ref)
nvfs_mgroup_get_ref(m, g) == [m EXCEPT ![g].ref = @ + 1]

\* atomic_dec_and_test(&mgroup->ref): the new bytes, and whether it hit zero
nvfs_mgroup_put_ref(m, g) ==
    [m |-> [m EXCEPT ![g].ref = @ - 1], last |-> (m[g].ref - 1 = 0)]

\* hash_for_each_possible_rcu + the base_index comparison: the entries of the
\* chain that match
HashMatches(h, m, base_index) == {g \in h : m[g].base_index = base_index}

\* nvfs_mgroup_get_unlocked, the chain walk: the entry it stops at (a linked
\* entry whose base_index matches), or NULL when there is none
nvfs_mgroup_get_unlocked(h, m, base_index) ==
    IF HashMatches(h, m, base_index) = {} THEN {NULL} ELSE HashMatches(h, m, base_index)

(***************************************************************************)
(* Ghost bookkeeping of dangling pointers                                  *)
(***************************************************************************)
\* thread u is at a place from which it still uses its local nvfs_mgroup, and
\* that local points to slot g
HoldsLocal(u, g) ==
    /\ th[u].nvfs_mgroup = g
    /\ \/ th[u].pc \in {"put", "free", "free_abort", "free_unlink", "free_mem",
                        "close_done", "mmap_populate", "dma_folio", "dma_done"}
       \/ th[u].pc = "mmap_unlock" /\ th[u].nvfs_new_mgroup = NULL

\* the pointers to slot g that exist, besides thread t's own local, when t
\* kfree's the group
PointersTo(g, t) ==
    {<<"hnd", u>> : u \in {u \in Threads : hnd[u].n > 0 /\ hnd[u].mg = g}}
    \cup {<<"cur", u>> : u \in {u \in Threads : th[u].pc = "get_inc" /\ th[u].cur = g}}
    \cup {<<"vma", u>> : u \in {u \in Threads : vma[u].vm_private_data = g}}
    \cup {<<"loc", u>> : u \in {u \in Threads \ {t} : HoldsLocal(u, g)}}
    \cup {<<"new", u>> : u \in {u \in Threads \ {t} : th[u].nvfs_new_mgroup = g}}

\* thread t takes the pointer held in `from` into its local nvfs_mgroup
LoadLocal(d, t, from) ==
    IF from \in d THEN d \cup {<<"loc", t>>} ELSE d \ {<<"loc", t>>}

\* thread t leaves an entry point: its locals are gone
Leave(t) == [th EXCEPT ![t] = IdleThread]
Goto(t, label) == [th EXCEPT ![t].pc = label]

(***************************************************************************)
(* nvfs_mgroup_get: lookup under rcu_read_lock                             *)
(***************************************************************************)
\* rcu_read_lock() and the walk of the hash chain
GetFind(t, k) ==
    /\ th[t].pc = "idle"
    /\ hnd[t].n = 0
    /\ \E g \in nvfs_mgroup_get_unlocked(hash, mgroup, k) :
          /\ th' = [th EXCEPT ![t] = [@ EXCEPT !.pc = "get_inc", !.op = "get", !.cur = g]]
          /\ dangling' = IF g # NULL /\ ~Allocated(g)
                         THEN dangling \cup {<<"cur", t>>} ELSE dangling
    /\ UNCHANGED <<heap, mgroup, hash, lock, hnd, vma, gp_wait, pinref, out>>

\* nvfs_mgroup_get_ref on the entry found, rcu_read_unlock(), return
GetInc(t) ==
    /\ th[t].pc = "get_inc"
    /\ LET g == th[t].cur IN
         IF g = NULL
         THEN /\ UNCHANGED <<mgroup, hnd, out>>
              /\ dangling' = dangling \ {<<"cur", t>>}
         ELSE /\ mgroup' = nvfs_mgroup_get_ref(mgroup, g)
              /\ hnd' = [hnd EXCEPT ![t] = [mg |-> g, n |-> 1]]
              /\ out' = [out EXCEPT ![g] = @ + 1]
              /\ dangling' = IF <<"cur", t>> \in dangling
                             THEN (dangling \ {<<"cur", t>>}) \cup {<<"hnd", t>>}
                             ELSE dangling
    /\ th' = Leave(t)
    /\ gp_wait' = [u \in Threads |-> gp_wait[u] \ {t}]
    /\ UNCHANGED <<heap, hash, lock, vma, pinref>>

\* a holder takes one more reference on its handle: nvfs_mgroup_get_ref
GetRef(t) ==
    /\ th[t].pc = "idle"
    /\ hnd[t].n > 0
    /\ hnd[t].n < 1 + MaxHeld
    /\ mgroup' = nvfs_mgroup_get_ref(mgroup, hnd[t].mg)
    /\ hnd' = [hnd EXCEPT ![t].n = @ + 1]
    /\ out' = [out EXCEPT ![hnd[t].mg] = @ + 1]
    /\ UNCHANGED <<heap, hash, lock, th, vma, gp_wait, pinref, dangling>>

\* a holder gives one reference back: nvfs_mgroup_put(handle)
Release(t) ==
    /\ th[t].pc = "idle"
    /\ hnd[t].n > 0
    /\ th' = [th EXCEPT ![t] = [@ EXCEPT !.pc = "put", !.cont = "idle", !.op = "put",
                                         !.nvfs_mgroup = hnd[t].mg, !.net = 1]]
    /\ hnd' = [hnd EXCEPT ![t] = IF @.n = 1 THEN [mg |-> NULL, n |-> 0]
                                             ELSE [@ EXCEPT !.n = @ - 1]]
    /\ dangling' = IF hnd[t].n = 1
                   THEN LoadLocal(dangling, t, <<"hnd", t>>) \ {<<"hnd", t>>}
                   ELSE LoadLocal(dangling, t, <<"hnd", t>>)
    /\ UNCHANGED <<heap, mgroup, hash, lock, vma, gp_wait, pinref, out>>

(***************************************************************************)
(* nvfs_mgroup_put_internal and nvfs_mgroup_free                           *)
(***************************************************************************)
\* where a thread goes when the subroutine it is in returns
Resume(t) ==
    [th EXCEPT ![t] = IF th[t].cont = "idle" THEN IdleThread
                      ELSE [th[t] EXCEPT !.pc = th[t].cont, !.gpu_rc = 0,
                                         !.may_sleep = TRUE, !.rcu = "none"]]

\* nvfs_mgroup_put_internal: the decrement, and the call of nvfs_mgroup_free
\* when it was the last reference
PutRef(t) ==
    /\ th[t].pc = "put"
    /\ LET g == th[t].nvfs_mgroup
           r == nvfs_mgroup_put_ref(mgroup, g)
       IN /\ mgroup' = r.m
          /\ out' = [out EXCEPT ![g] = @ - 1]
          /\ IF r.last
             THEN /\ th' = [th EXCEPT ![t] = [@ EXCEPT !.pc = "free", !.net = @ - 1]]
                  /\ dangling' = dangling
             ELSE /\ th' = [Resume(t) EXCEPT ![t].net = th[t].net - 1]
                  /\ dangling' = dangling \ {<<"loc", t>>}
    /\ UNCHANGED <<heap, hash, lock, hnd, vma, gp_wait, pinref>>

\* the results nvfs_free_gpu_info can return for a group in this io_state:
\* it is called only when the accelerator mapping ever began
nvfs_free_gpu_info_results(io_state) ==
    IF io_state > IO_INIT THEN {0, -1} ELSE {0}

\* a teardown that goes on whatever the accelerator release step returned
free_ignoring_gpu_info(rc) == "free_unlink"

\* after the accelerator release step: go on with the teardown, or return
free_after_gpu_info(rc) == IF rc # 0 THEN "free_abort" ELSE "free_unlink"

\* nvfs_mgroup_free, lines 138-144: the accelerator release step
FreeGpuInfo(t, rc) ==
    /\ th[t].pc = "free"
    /\ rc \in nvfs_free_gpu_info_results(mgroup[th[t].nvfs_mgroup].io_state)
    /\ th' = [th EXCEPT ![t] = [@ EXCEPT !.pc = free_after_gpu_info(rc), !.gpu_rc = rc]]
    /\ UNCHANGED <<heap, mgroup, hash, lock, hnd, vma, gp_wait, pinref, out, dangling>>

\* nvfs_mgroup_free, line 142: return without tearing anything down
FreeAbort(t) ==
    /\ th[t].pc = "free_abort"
    /\ th' = Resume(t)
    /\ dangling' = dangling \ {<<"loc", t>>}
    /\ UNCHANGED <<heap, mgroup, hash, lock, hnd, vma, gp_wait, pinref, out>>

\* hash_del_rcu(&nvfs_mgroup->hash_link)
hash_del_rcu(h, g) == h \ {g}

\* a spinlock that excludes nobody
spin_lock_always_free(t) == TRUE

\* the spinlock can be taken by t
spin_lock_free(t) == lock = "none"

\* NVFS_MAY_SLEEP(): whether the calling context may sleep.  The macro is in
\* nvfs-core.h; the calls of nvfs_mgroup_put come from system calls and from
\* I/O completions, so both answers occur.
NVFS_MAY_SLEEP == BOOLEAN

\* lines 155-159: the quiescence wait nvfs_mgroup_free calls
rcu_wait(may_sleep) ==
    IF ~may_sleep THEN "synchronize_rcu" ELSE "synchronize_rcu_expedited"

\* nvfs_mgroup_free, lines 145-159: spin_lock, hash_del_rcu, spin_unlock, and
\* the start of synchronize_rcu: the grace period covers every reader that is
\* inside its read section now
FreeUnlink(t) ==
    /\ th[t].pc = "free_unlink"
    /\ spin_lock_free(t)
    /\ hash' = hash_del_rcu(hash, th[t].nvfs_mgroup)
    /\ gp_wait' = [gp_wait EXCEPT ![t] = {u \in Threads : InRcuRead(u)}]
    /\ \E may_sleep \in NVFS_MAY_SLEEP :
          th' = [th EXCEPT ![t] = [@ EXCEPT !.pc = "free_mem", !.gpu_rc = 0,
                                            !.may_sleep = may_sleep,
                                            !.rcu = rcu_wait(may_sleep)]]
    /\ UNCHANGED <<heap, mgroup, lock, hnd, vma, pinref, out, dangling>>

\* synchronize_rcu has returned: every reader it waited for has left
synchronize_rcu_done(t) == gp_wait[t] = {}

\* the heap objects nvfs_mgroup_free, lines 165-180, hands back
FreedObjects(m, g) ==
    {GroupObj(g), Obj("metadata", g, 0)}
    \cup (IF m[g].nvfs_folios # <<>>
          THEN {Obj("folios", g, 0)}
               \cup {Obj("folio", g, i) : i \in {i \in 1..m[g].nvfs_folios_count :
                                                   i <= Len(m[g].nvfs_folios)
                                                   /\ m[g].nvfs_folios[i] # NULL}}
          ELSE {})

\* the bytes of the slot after lines 165-180.  `seen` says whether anything
\* still points to the slot; when nothing does, the bytes cannot be read
\* before kzalloc zeroes them, and they are kept as zeroes.
FreedGroup(r, seen) ==
    IF ~seen THEN ZeroGroup
    ELSE IF r.nvfs_folios # <<>>
    THEN [r EXCEPT !.nvfs_blocks_count = 0, !.nvfs_folios_count = 0,
                   !.nvfs_folios = <<>>, !.base_index = 0]
    ELSE [r EXCEPT !.base_index = 0]

\* nvfs_mgroup_free, lines 156-180: the end of the quiescence wait, then kfree
\* of the metadata, folio_put of every materialized unit, kfree of the unit
\* array and of the group
FreeMem(t) ==
    /\ th[t].pc = "free_mem"
    /\ synchronize_rcu_done(t)
    /\ LET g == th[t].nvfs_mgroup IN
         /\ heap' = heap \ FreedObjects(mgroup, g)
         /\ mgroup' = [mgroup EXCEPT
                          ![g] = FreedGroup(@, PointersTo(g, t) # {} \/ g \in hash)]
         /\ out' = [out EXCEPT ![g] = IF PointersTo(g, t) # {} \/ g \in hash
                                       THEN @ ELSE 0]
         /\ dangling' = (dangling \cup PointersTo(g, t)) \ {<<"loc", t>>}
    /\ th' = Resume(t)
    /\ UNCHANGED <<hash, lock, hnd, vma, gp_wait, pinref>>

(***************************************************************************)
(* nvfs_mgroup_mmap_internal: mapping establishment                        *)
(***************************************************************************)
BLOCKS_PER_FOLIO == GPU_PAGE_SIZE \div NVFS_BLOCK_SIZE

\* length checks without the two alignment checks
mmap_length_only_max(length) == ~(length > NVFS_MAX_SHADOW_PAGES * PAGE_SIZE)

\* lines 598-611: the checks of the length
mmap_length_ok(length) ==
    /\ ~(length > NVFS_MAX_SHADOW_PAGES * PAGE_SIZE)
    /\ ~((length < GPU_PAGE_SIZE) /\ (length % NVFS_BLOCK_SIZE # 0))
    /\ ~((length > GPU_PAGE_SIZE) /\ (length % GPU_PAGE_SIZE # 0))

\* lines 617-631: the checks of vm_flags
mmap_flags_ok(vm_flags) ==
    /\ VM_RW \subseteq vm_flags
    /\ "VM_EXEC" \notin vm_flags
    /\ "VM_SHARED" \in vm_flags

\* the slots kzalloc can return
kzalloc_slots(h) == {s \in Slots : GroupObj(s) \notin h}

\* lines 593-646: the precondition checks and the allocation of the group
MmapStart(t, length, vm_flags) ==
    /\ th[t].pc = "idle"
    /\ ~vma[t].mapped
    /\ LET call == [th[t] EXCEPT !.op = "mmap", !.length = length, !.vm_flags = vm_flags] IN
         IF ~(mmap_length_ok(length) /\ mmap_flags_ok(vm_flags))
         THEN /\ th' = [th EXCEPT ![t] = [call EXCEPT !.pc = "ret", !.ret = -EINVAL]]
              /\ UNCHANGED <<heap, mgroup, out>>
         ELSE \/ /\ th' = [th EXCEPT ![t] = [call EXCEPT !.pc = "ret", !.ret = -ENOMEM]]
                 /\ UNCHANGED <<heap, mgroup, out>>
              \/ \E s \in kzalloc_slots(heap) :
                   /\ heap' = heap \cup {GroupObj(s)}
                   /\ mgroup' = [mgroup EXCEPT ![s] = ZeroGroup]
                   /\ out' = [out EXCEPT ![s] = 0]
                   /\ th' = [th EXCEPT ![t] = [call EXCEPT !.pc = "mmap_lock",
                                                            !.nvfs_new_mgroup = s]]
    /\ UNCHANGED <<hash, lock, hnd, vma, gp_wait, pinref, dangling>>

\* line 653-654: spin_lock(&lock); tries = 10
MmapLock(t) ==
    /\ th[t].pc = "mmap_lock"
    /\ spin_lock_free(t)
    /\ lock' = t
    /\ th' = [th EXCEPT ![t] = [@ EXCEPT !.pc = "mmap_probe", !.tries = MAX_TRIES]]
    /\ UNCHANGED <<heap, mgroup, hash, hnd, vma, gp_wait, pinref, out, dangling>>

\* line 662: the probe collided and is retried
probe_retry(found, tries) == found # NULL /\ tries # 0

\* a loop that does not stop when the tries are used up
probe_always_again(tries) == TRUE

\* line 672: the loop goes round again
probe_again(tries) == tries # 0

\* hash_add_rcu(nvfs_io_mgroup_hash, &nvfs_new_mgroup->hash_link, base_index)
hash_add_rcu(h, g) == h \cup {g}

\* lines 655-663, one round of the loop: draw a key and probe it; a collided
\* group is dropped again and the loop goes round, otherwise the key is taken
MmapProbe(t, base_index) ==
    /\ th[t].pc = "mmap_probe"
    /\ \E g \in nvfs_mgroup_get_unlocked(hash, mgroup, base_index) :
         LET tries2 == IF g = NULL THEN th[t].tries ELSE th[t].tries - 1 IN
         /\ mgroup' = IF g = NULL THEN mgroup ELSE nvfs_mgroup_get_ref(mgroup, g)
         /\ out' = IF g = NULL THEN out ELSE [out EXCEPT ![g] = @ + 1]
         /\ IF probe_retry(g, th[t].tries)
            THEN /\ th' = [th EXCEPT ![t] = [@ EXCEPT
                              !.pc = "put", !.tries = tries2, !.nvfs_mgroup = g,
                              !.base_index = base_index,
                              !.net = @ + 1, !.probes = @ + 1,
                              !.cont = IF probe_again(tries2) THEN "mmap_probe"
                                                               ELSE "mmap_unlock"]]
                 /\ dangling' = IF Allocated(g) THEN dangling \ {<<"loc", t>>}
                                                ELSE dangling \cup {<<"loc", t>>}
            ELSE /\ th' = [th EXCEPT ![t] = [@ EXCEPT
                              !.pc = "mmap_link", !.tries = tries2, !.nvfs_mgroup = g,
                              !.base_index = base_index, !.probes = @ + 1]]
                 /\ dangling' = dangling \ {<<"loc", t>>}
    /\ UNCHANGED <<heap, hash, lock, hnd, vma, gp_wait, pinref>>

\* lines 665-670: the new group gets the key and the count 1 and is linked
MmapLink(t) ==
    /\ th[t].pc = "mmap_link"
    /\ LET new == th[t].nvfs_new_mgroup IN
         /\ mgroup' = [mgroup EXCEPT ![new].base_index = th[t].base_index,
                                     ![new].ref = 1]
         /\ out' = [out EXCEPT ![new] = 1]
         /\ hash' = hash_add_rcu(hash, new)
         /\ th' = [th EXCEPT ![t] = [@ EXCEPT
                      !.pc = "mmap_unlock", !.net = @ + 1,
                      !.nvfs_mgroup = new, !.nvfs_new_mgroup = NULL]]
         /\ dangling' = LoadLocal(dangling, t, <<"new", t>>) \ {<<"new", t>>}
    /\ UNCHANGED <<heap, lock, hnd, vma, gp_wait, pinref>>

\* lines 673-679: spin_unlock; give up when no key was free
MmapUnlock(t) ==
    /\ th[t].pc = "mmap_unlock"
    /\ lock' = "none"
    /\ IF th[t].nvfs_new_mgroup # NULL
       THEN /\ heap' = heap \ {GroupObj(th[t].nvfs_new_mgroup)}
            /\ th' = [th EXCEPT ![t] = [@ EXCEPT !.pc = "ret", !.ret = -ENOMEM,
                                                 !.nvfs_mgroup = NULL,
                                                 !.nvfs_new_mgroup = NULL]]
            /\ dangling' = (dangling \cup PointersTo(th[t].nvfs_new_mgroup, t))
                              \ {<<"new", t>>, <<"loc", t>>}
       ELSE /\ heap' = heap
            /\ th' = Goto(t, "mmap_populate")
            /\ dangling' = dangling
    /\ UNCHANGED <<mgroup, hash, hnd, vma, gp_wait, pinref, out>>

\* the address folio_alloc returns for unit i (counted from 1) of the group in
\* slot s
FolioPtr(s, i) == 100 * s + i

\* the outcomes of the allocations of lines 681-764: kind "none" (all succeed),
\* "folios" (kcalloc of the unit array fails), "metadata" (kcalloc of the
\* metadata array fails), "folio_alloc" / "vm_insert_page" at unit `at`
\* (counted from 0)
Faults(length) ==
    {[kind |-> k, at |-> 0] : k \in {"none", "folios", "metadata"}}
    \cup {[kind |-> k, at |-> f] : k \in {"folio_alloc", "vm_insert_page"},
                                   f \in 0..(DIV_ROUND_UP(length, GPU_PAGE_SIZE) - 1)}

\* a metadata header whose offset is counted from the start of the region
FilledMetaRegionOffset(s, i) ==
    [nvfs_start_magic |-> NVFS_START_MAGIC,
     nvfs_state |-> NVFS_IO_ALLOC,
     folio |-> FolioPtr(s, (i \div BLOCKS_PER_FOLIO) + 1),
     folio_offset |-> i * NVFS_BLOCK_SIZE]

\* lines 766-771: the metadata header of block i (counted from 0)
FilledMeta(s, i) ==
    [nvfs_start_magic |-> NVFS_START_MAGIC,
     nvfs_state |-> NVFS_IO_ALLOC,
     folio |-> FolioPtr(s, (i \div BLOCKS_PER_FOLIO) + 1),
     folio_offset |-> (i % BLOCKS_PER_FOLIO) * NVFS_BLOCK_SIZE]

\* lines 681-775 on the group in slot s whose bytes are r: the bytes afterwards
\* (grp), the heap objects allocated (objs), whether vm_private_data was set
\* (private) and whether the call got through (ok)
Populate(s, r, length, fault) ==
    LET nvfs_blocks_count == DIV_ROUND_UP(length, NVFS_BLOCK_SIZE)
        folios_count == DIV_ROUND_UP(length, GPU_PAGE_SIZE)
        r1 == [r EXCEPT !.nvfs_folios_count = folios_count]
        r2 == [r1 EXCEPT !.nvfs_folios = [i \in 1..folios_count |-> NULL]]
        r3 == [r2 EXCEPT !.nvfs_metadata = [i \in 1..nvfs_blocks_count |-> ZeroMeta]]
        \* the loop stops at block `stop`, having materialized `units` units
        stop == IF fault.kind = "none" THEN nvfs_blocks_count
                ELSE fault.at * BLOCKS_PER_FOLIO
        units == IF fault.kind = "none" THEN folios_count
                 ELSE IF fault.kind = "vm_insert_page" THEN fault.at + 1
                 ELSE fault.at
        r4 == [r3 EXCEPT
                 !.nvfs_folios = [i \in 1..folios_count |->
                                    IF i <= units THEN FolioPtr(s, i) ELSE NULL],
                 !.nvfs_metadata = [i \in 1..nvfs_blocks_count |->
                                    IF i <= stop THEN FilledMeta(s, i - 1) ELSE ZeroMeta],
                 !.nvfs_blocks_count = stop]
        arrays == {Obj("folios", s, 0), Obj("metadata", s, 0)}
    IN CASE fault.kind = "folios" ->
              [grp |-> r1, objs |-> {}, private |-> FALSE, ok |-> FALSE]
         [] fault.kind = "metadata" ->
              [grp |-> r2, objs |-> {Obj("folios", s, 0)}, private |-> FALSE, ok |-> FALSE]
         [] fault.kind = "none" ->
              [grp |-> [r4 EXCEPT !.io_state = IO_FREE],
               objs |-> arrays \cup {Obj("folio", s, i) : i \in 1..units},
               private |-> TRUE, ok |-> TRUE]
         [] OTHER ->
              [grp |-> r4,
               objs |-> arrays \cup {Obj("folio", s, i) : i \in 1..units},
               private |-> TRUE, ok |-> FALSE]

\* error paths that go to `error` without nvfs_mgroup_put
mmap_error_no_release(t) == "ret"

\* what the error paths of lines 688-762 do with the group before `goto error`
mmap_error_release(t) == "put"

\* lines 681-788: the unit array, the metadata array, the units and the
\* metadata headers; on a failure the group is put and the call fails
MmapPopulate(t, fault) ==
    /\ th[t].pc = "mmap_populate"
    /\ fault \in Faults(th[t].length)
    /\ LET g == th[t].nvfs_mgroup
           p == Populate(g, mgroup[g], th[t].length, fault)
       IN /\ mgroup' = [mgroup EXCEPT ![g] = p.grp]
          /\ heap' = heap \cup p.objs
          /\ vma' = IF p.private THEN [vma EXCEPT ![t].vm_private_data = g] ELSE vma
          /\ dangling' = IF p.private /\ <<"loc", t>> \in dangling
                         THEN dangling \cup {<<"vma", t>>} ELSE dangling
          /\ th' = IF p.ok
                   THEN [th EXCEPT ![t] = [@ EXCEPT !.pc = "ret", !.ret = 0]]
                   ELSE [th EXCEPT ![t] = [@ EXCEPT !.pc = mmap_error_release(t),
                                                    !.cont = "ret", !.ret = -ENOMEM]]
    /\ UNCHANGED <<hash, lock, hnd, gp_wait, pinref, out>>

\* the entry point returns to its caller.  A mapping whose establishment
\* failed is destroyed by the virtual-memory subsystem.
Return(t) ==
    /\ th[t].pc = "ret"
    /\ IF th[t].op = "mmap"
       THEN IF th[t].ret = 0
            THEN /\ vma' = [vma EXCEPT ![t].mapped = TRUE]
                 /\ dangling' = dangling \ {<<"loc", t>>}
            ELSE /\ vma' = [vma EXCEPT ![t] = NoVma]
                 /\ dangling' = dangling \ {<<"vma", t>>, <<"loc", t>>}
       ELSE vma' = vma /\ dangling' = dangling \ {<<"loc", t>>}
    /\ th' = Leave(t)
    /\ UNCHANGED <<heap, mgroup, hash, lock, hnd, gp_wait, pinref, out>>

(***************************************************************************)
(* Accelerator side (nvfs-core.c): the phase of gpu_info and the pin        *)
(* reference                                                               *)
(***************************************************************************)
\* nvfs_io_terminate_requested(gpu_info, false): an idle mapping is
\* terminated at once, an operation in flight is asked to terminate
nvfs_io_terminate_requested(io_state) ==
    IF io_state \in {IO_INIT, IO_READY} THEN IO_TERMINATED
    ELSE IF io_state = IO_IN_PROGRESS THEN IO_TERMINATE_REQ
    ELSE io_state

\* nvfs_map: the holder of a handle from the pin of the shadow buffer maps the
\* accelerator buffer; its reference stays with the group as the pin reference
NvfsMap(t) ==
    /\ th[t].pc = "idle"
    /\ hnd[t].n = 1
    /\ hnd[t].mg \notin pinref
    /\ mgroup[hnd[t].mg].io_state = IO_FREE
    /\ <<"hnd", t>> \notin dangling
    /\ mgroup' = [mgroup EXCEPT ![hnd[t].mg].io_state = IO_READY]
    /\ pinref' = pinref \cup {hnd[t].mg}
    /\ hnd' = [hnd EXCEPT ![t] = [mg |-> NULL, n |-> 0]]
    /\ UNCHANGED <<heap, hash, lock, th, vma, gp_wait, out, dangling>>

\* an I/O on a held handle starts: IO_READY -> IO_IN_PROGRESS
IoStart(t) ==
    /\ th[t].pc = "idle"
    /\ hnd[t].n > 0
    /\ <<"hnd", t>> \notin dangling
    /\ mgroup[hnd[t].mg].io_state = IO_READY
    /\ mgroup' = [mgroup EXCEPT ![hnd[t].mg].io_state = IO_IN_PROGRESS]
    /\ UNCHANGED <<heap, hash, lock, th, hnd, vma, gp_wait, pinref, out, dangling>>

\* the I/O ends: back to IO_READY, or, when termination was requested while
\* it ran, to IO_TERMINATED, and then the I/O path drops the pin reference
IoEnd(t) ==
    /\ th[t].pc = "idle"
    /\ hnd[t].n > 0
    /\ <<"hnd", t>> \notin dangling
    /\ LET g == hnd[t].mg IN
         \/ /\ mgroup[g].io_state = IO_IN_PROGRESS
            /\ mgroup' = [mgroup EXCEPT ![g].io_state = IO_READY]
            /\ UNCHANGED <<th, pinref>>
         \/ /\ mgroup[g].io_state = IO_TERMINATE_REQ
            /\ g \in pinref
            /\ mgroup' = [mgroup EXCEPT ![g].io_state = IO_TERMINATED]
            /\ pinref' = pinref \ {g}
            /\ th' = [th EXCEPT ![t] = [@ EXCEPT !.pc = "put", !.cont = "idle",
                                                 !.op = "unpin", !.nvfs_mgroup = g,
                                                 !.net = 1]]
    /\ UNCHANGED <<heap, hash, lock, hnd, vma, gp_wait, out, dangling>>

\* nvfs_get_pages_free_callback: the accelerator driver frees the buffer;
\* the callback ends the phase at IO_CALLBACK_END and drops the pin reference
NvfsFreeCallback(t, g) ==
    /\ th[t].pc = "idle"
    /\ g \in pinref
    /\ Allocated(g)
    /\ mgroup[g].io_state = IO_READY
    /\ mgroup' = [mgroup EXCEPT ![g].io_state = IO_CALLBACK_END]
    /\ pinref' = pinref \ {g}
    /\ th' = [th EXCEPT ![t] = [@ EXCEPT !.pc = "put", !.cont = "idle",
                                         !.op = "callback", !.nvfs_mgroup = g,
                                         !.net = 1]]
    /\ dangling' = dangling \ {<<"loc", t>>}
    /\ UNCHANGED <<heap, hash, lock, hnd, vma, gp_wait, out>>

(***************************************************************************)
(* nvfs_vma_close: the mapping-close callback                              *)
(***************************************************************************)
\* the callback releasing the pin reference whatever phase it leaves behind,
\* an operation in flight that was only asked to terminate included
close_unpins_in_flight(io_state, after) ==
    /\ io_state > IO_INIT
    /\ io_state # IO_CALLBACK_END

\* lines 480-532: whether the callback releases the pin reference, given the
\* phase it read and the phase after the termination request
close_unpins(io_state, after) ==
    /\ io_state > IO_INIT
    /\ io_state # IO_CALLBACK_END
    /\ after = IO_TERMINATED

\* lines 473-532: read the phase, request termination, and release the pin
\* reference when the mapping was terminated by this callback
CloseStart(t) ==
    /\ th[t].pc = "idle"
    /\ vma[t].mapped
    /\ vma[t].vm_private_data # NULL
    /\ LET g == vma[t].vm_private_data
           io_state == mgroup[g].io_state
           after == IF io_state > IO_INIT /\ io_state # IO_CALLBACK_END
                    THEN nvfs_io_terminate_requested(io_state) ELSE io_state
       IN /\ mgroup' = [mgroup EXCEPT ![g].io_state = after]
          /\ IF close_unpins(io_state, after)
             THEN /\ pinref' = pinref \ {g}
                  /\ th' = [th EXCEPT ![t] = [@ EXCEPT !.pc = "put", !.cont = "close_done",
                                                       !.op = "vma_close", !.nvfs_mgroup = g,
                                                       !.net = 2]]
             ELSE /\ pinref' = pinref
                  /\ th' = [th EXCEPT ![t] = [@ EXCEPT !.pc = "close_done",
                                                       !.op = "vma_close", !.nvfs_mgroup = g,
                                                       !.net = 1]]
          /\ dangling' = LoadLocal(dangling, t, <<"vma", t>>)
    /\ UNCHANGED <<heap, hash, lock, hnd, vma, gp_wait, out>>

\* lines 534-540: BUG_ON(ref < 1), then the release of the reference from mmap
CloseDone(t) ==
    /\ th[t].pc = "close_done"
    /\ th' = IF mgroup[th[t].nvfs_mgroup].ref < 1
             THEN Goto(t, "bug")
             ELSE [th EXCEPT ![t] = [@ EXCEPT !.pc = "put", !.cont = "close_end"]]
    /\ dangling' = LoadLocal(dangling, t, <<"vma", t>>)
    /\ UNCHANGED <<heap, mgroup, hash, lock, hnd, vma, gp_wait, pinref, out>>

\* line 542: vma->vm_private_data = NULL; the mapping is gone
CloseEnd(t) ==
    /\ th[t].pc = "close_end"
    /\ vma' = [vma EXCEPT ![t] = NoVma]
    /\ dangling' = dangling \ {<<"vma", t>>, <<"loc", t>>}
    /\ th' = Leave(t)
    /\ UNCHANGED <<heap, mgroup, hash, lock, hnd, gp_wait, pinref, out>>

(***************************************************************************)
(* Block state machine: pin, nvfs_mgroup_fill_mpages, the DMA-start calls  *)
(* and nvfs_mgroup_check_and_set.  The calls act on the group the thread   *)
(* holds from its pin; a group has one operation in flight at a time.      *)
(***************************************************************************)
\* lines 1043, 1140, 1222, 1288
nvfs_block_count_per_page == PAGE_SIZE \div NVFS_BLOCK_SIZE

\* METADATA_BLOCK_START_INDEX / METADATA_BLOCK_END_INDEX of nvfs-mmap.h
METADATA_BLOCK_START_INDEX(bv_offset) == bv_offset \div NVFS_BLOCK_SIZE
METADATA_BLOCK_END_INDEX(bv_offset, bv_len) == (bv_offset + bv_len - 1) \div NVFS_BLOCK_SIZE

\* the state of block i (counted from 0) of the group bytes r
BlockState(r, i) == r.nvfs_metadata[i + 1].nvfs_state

\* the least element of a non-empty set of numbers
Least(S) == CHOOSE x \in S : \A y \in S : x <= y

\* every block starts a hole of its own
hole_always_starts(last_sparse_index, i) == TRUE

\* line 824: block i does not continue the hole the previous block was in
hole_starts(last_sparse_index, i) ==
    last_sparse_index < 0 \/ last_sparse_index + 1 # i

\* a limit that lets one hole more than the maximum through
hole_limit_late(nholes) == nholes >= NVFS_MAX_HOLE_REGIONS

\* line 825: the holes counted so far (nholes is the index of the last one)
\* fill the hole array
hole_limit_reached(nholes) == nholes + 1 >= NVFS_MAX_HOLE_REGIONS

\* nvfs_handle_sparse_read_region on the loop state a of
\* nvfs_mgroup_check_and_set: the value returned and the loop state after
nvfs_handle_sparse_read_region(a, i, nvfs_active_blocks_start) ==
    LET a1 == IF ~a.sparse_ptr
              THEN [a EXCEPT !.check_sparse = TRUE, !.sparse_ptr = TRUE]
              ELSE a
    IN  IF hole_starts(a1.last_sparse_index, i)
        THEN IF hole_limit_reached(a1.nholes)
             THEN [result |-> (i - nvfs_active_blocks_start) * NVFS_BLOCK_SIZE,
                   a |-> [a1 EXCEPT !.last_sparse_index = i]]
             ELSE [result |-> 0,
                   a |-> [a1 EXCEPT !.nholes = @ + 1,
                                    !.hole[a1.nholes + 2] =
                                        [start |-> i - nvfs_active_blocks_start,
                                         npages |-> 1],
                                    !.last_sparse_index = i]]
        ELSE [result |-> 0,
              a |-> [a1 EXCEPT !.hole[a1.nholes + 1].npages = @ + 1,
                               !.last_sparse_index = i]]

\* a validation that lets a write pass with a block that never started
write_unstarted_ignored(ret) == ret

\* lines 869-873: the result of a write one of whose transferred blocks is
\* not NVFS_IO_DMA_START
write_unstarted_ret(ret) == -EIO

\* nvfs_handle_done_block_validation together with lines 950-953: the loop
\* state after block i of the active range, found in nvfs_state, has been
\* validated
nvfs_handle_done_block_validation(a, nvfs_state, i, last_done_block, nvfsio, validate) ==
    IF validate /\ nvfs_state # NVFS_IO_DMA_START
    THEN IF i > last_done_block
         THEN IF nvfs_state # NVFS_IO_QUEUED
              THEN [a EXCEPT !.ret = -EIO] ELSE a
         ELSE IF nvfsio.op = "READ"
              THEN IF a.sparse_read_bytes_limit # 0
                   THEN [a EXCEPT !.last_sparse_index = i]
                   ELSE LET h == nvfs_handle_sparse_read_region(
                                     a, i, nvfsio.nvfs_active_blocks_start)
                        IN  IF h.result > 0
                            THEN [h.a EXCEPT !.sparse_read_bytes_limit = h.result]
                            ELSE h.a
              ELSE [a EXCEPT !.ret = write_unstarted_ret(a.ret)]
    ELSE a

\* a completion that spares the blocks of an interrupted operation only
check_and_set_interrupted_only(in_interrupt, exiting, ret) == ret = -ERESTARTSYS

\* lines 971-973: the caller is a process that is exiting (`exiting` is
\* current->flags & PF_EXITING, `in_interrupt` is in_interrupt()) or the
\* operation was interrupted
check_and_set_interrupted(in_interrupt, exiting, ret) ==
    (~in_interrupt /\ exiting) \/ ret = -ERESTARTSYS

\* lines 971-980: besides an exiting or interrupted caller, what keeps block i
\* from being set to the target state: nothing
check_and_set_keeps(i, last_done_block) == FALSE

\* a result in which the truncation at the hole limit goes before a detected
\* error
check_and_set_limit_first(update_nvfsio, nvfsio_ret, ret, sparse_read_bytes_limit) ==
    IF ~update_nvfsio \/ nvfsio_ret < 0 THEN nvfsio_ret
    ELSE IF sparse_read_bytes_limit > 0 THEN sparse_read_bytes_limit
    ELSE IF ret < 0 THEN ret
    ELSE nvfsio_ret

\* lines 1015-1022: nvfsio->ret after the call, from nvfsio->ret before it and
\* the locals ret and sparse_read_bytes_limit
check_and_set_result(update_nvfsio, nvfsio_ret, ret, sparse_read_bytes_limit) ==
    IF ~update_nvfsio \/ nvfsio_ret < 0 THEN nvfsio_ret
    ELSE IF ret < 0 THEN ret
    ELSE IF sparse_read_bytes_limit > 0 THEN sparse_read_bytes_limit
    ELSE nvfsio_ret

\* nvfs_mgroup_check_and_set(r, state, validate, update_nvfsio) for the
\* target states NVFS_IO_INIT and NVFS_IO_DONE; `exiting` is PF_EXITING in
\* current->flags and `in_interrupt` says that the call runs in interrupt
\* context, where current is the task that was interrupted.  The bytes of the group afterwards
\* (grp), whether a BUG_ON of lines 896-897 fired (bug), and the locals ret
\* and sparse_read_bytes_limit at the end of the loop.  The entries of
\* the hole array past the count published are not part of the result and
\* are kept zero.  Every block is
\* visited once, so the loop finds block i in the state the call found it
\* in; `acc` is the rest of the loop's state after block i.
nvfs_mgroup_check_and_set(r, state, validate, update_nvfsio, exiting, in_interrupt) ==
    LET nvfsio == r.nvfsio
        done_blocks == DIV_ROUND_UP(nvfsio.ret, NVFS_BLOCK_SIZE)
        issued_blocks == nvfsio.nvfs_active_blocks_end
                         - nvfsio.nvfs_active_blocks_start + 1
        checked == validate /\ state = NVFS_IO_DONE
        last_done_block ==
            IF checked
            THEN IF done_blocks < issued_blocks
                 THEN nvfsio.nvfs_active_blocks_start + done_blocks - 1
                 ELSE nvfsio.nvfs_active_blocks_end
            ELSE 0
        cur_block_num == IF state = NVFS_IO_INIT THEN 0
                         ELSE nvfsio.nvfs_active_blocks_start
        last_block_num == IF state = NVFS_IO_INIT THEN r.nvfs_blocks_count - 1
                          ELSE nvfsio.nvfs_active_blocks_end
        interrupted == check_and_set_interrupted(in_interrupt, exiting, nvfsio.ret)
        a0 == [nholes |-> -1, last_sparse_index |-> -1,
               sparse_read_bytes_limit |-> 0, ret |-> 0,
               sparse_ptr |-> (checked /\ nvfsio.op = "READ" /\ nvfsio.check_sparse),
               check_sparse |-> nvfsio.check_sparse,
               hole |-> r.sparse.hole]
        acc[i \in (cur_block_num - 1)..last_block_num] ==
            IF i = cur_block_num - 1 THEN a0
            ELSE nvfs_handle_done_block_validation(
                     acc[i - 1], BlockState(r, i), i, last_done_block, nvfsio, validate)
        a == IF state # NVFS_IO_DONE \/ last_block_num < cur_block_num THEN a0
             ELSE acc[last_block_num]
        meta == [k \in 1..Len(r.nvfs_metadata) |->
                   IF /\ k - 1 >= cur_block_num
                      /\ k - 1 <= last_block_num
                      /\ ~(state = NVFS_IO_DONE /\ interrupted)
                      /\ ~check_and_set_keeps(k - 1, last_done_block)
                   THEN [r.nvfs_metadata[k] EXCEPT !.nvfs_state = state]
                   ELSE r.nvfs_metadata[k]]
        cleared == state = NVFS_IO_DONE /\ nvfsio.ret # -ERESTARTSYS /\ ~exiting
        nvfsio1 ==
            [nvfsio EXCEPT
               !.check_sparse = a.check_sparse,
               !.nvfs_active_blocks_start = IF cleared THEN 0 ELSE @,
               !.nvfs_active_blocks_end = IF cleared THEN 0 ELSE @,
               !.state = IF a.sparse_ptr
                         THEN IF a.nholes + 1 # 0 THEN "NVFS_IO_META_SPARSE"
                              ELSE "NVFS_IO_META_CLEAN"
                         ELSE @,
               !.ret = check_and_set_result(update_nvfsio, nvfsio.ret, a.ret,
                                            a.sparse_read_bytes_limit)]
        sparse1 == IF a.sparse_ptr
                   THEN [nholes |-> a.nholes + 1,
                         hole |-> [k \in 1..NVFS_MAX_HOLE_REGIONS |->
                                     IF k <= a.nholes + 1 THEN a.hole[k]
                                     ELSE ZeroSparse.hole[k]]]
                   ELSE r.sparse
    IN  IF checked /\ (nvfsio.ret < 0 \/ nvfsio.ret > nvfsio.length)
        THEN [grp |-> r, bug |-> TRUE, ret |-> 0, sparse_read_bytes_limit |-> 0]
        ELSE [grp |-> [r EXCEPT !.nvfs_metadata = meta, !.nvfsio = nvfsio1,
                                !.sparse = sparse1],
              bug |-> FALSE, ret |-> a.ret,
              sparse_read_bytes_limit |-> a.sparse_read_bytes_limit]

\* a queueing that takes a block whatever its state
fill_mpage_any_state(nvfs_state) == TRUE

\* line 1029: the states from which nvfs_mgroup_fill_mpage queues a block
fill_mpage_state_ok(nvfs_state) == nvfs_state \in {NVFS_IO_INIT, NVFS_IO_DONE}

\* range checks that let every start offset through
fill_mpages_offset_unchecked(r, nr_blocks) ==
    nr_blocks > r.nvfs_blocks_count

\* lines 1045-1067: the checks of nvfs_mgroup_fill_mpages fail
fill_mpages_fails(r, nr_blocks) ==
    LET gpu_page_offset == r.nvfsio.gpu_page_offset
    IN  \/ nr_blocks > r.nvfs_blocks_count
        \/ /\ gpu_page_offset # 0
           /\ \/ gpu_page_offset > GPU_PAGE_SIZE - KiB4
              \/ gpu_page_offset % KiB4 # 0
              \/ gpu_page_offset + nr_blocks * NVFS_BLOCK_SIZE > GPU_PAGE_SIZE
              \/ (gpu_page_offset \div NVFS_BLOCK_SIZE) + nr_blocks
                     > r.nvfs_blocks_count

\* line 1080: nvfs_active_blocks_end after the loop has ended at block j
active_blocks_end(j) == IF j > 0 THEN j - 1 ELSE 0

\* nvfs_mgroup_fill_mpages(r, nr_blocks): the bytes afterwards (grp), the
\* value returned (ret) and whether the BUG_ON of line 1029 fired (bug), in
\* which case the loop stopped at the offending block
nvfs_mgroup_fill_mpages(r, nr_blocks) ==
    LET nvfsio == r.nvfsio
        blockoff == IF nvfsio.gpu_page_offset # 0
                    THEN nvfsio.gpu_page_offset \div NVFS_BLOCK_SIZE ELSE 0
        bad == {j \in blockoff..(blockoff + nr_blocks - 1) :
                    ~fill_mpage_state_ok(BlockState(r, j))}
        stop == IF bad = {} THEN blockoff + nr_blocks ELSE Least(bad)
        meta == [k \in 1..Len(r.nvfs_metadata) |->
                   IF k - 1 < blockoff
                   THEN [r.nvfs_metadata[k] EXCEPT !.nvfs_state = NVFS_IO_INIT]
                   ELSE IF k - 1 < stop
                   THEN [r.nvfs_metadata[k] EXCEPT !.nvfs_state = NVFS_IO_QUEUED]
                   ELSE IF bad = {}
                   THEN [r.nvfs_metadata[k] EXCEPT !.nvfs_state = NVFS_IO_INIT]
                   ELSE r.nvfs_metadata[k]]
    IN  IF fill_mpages_fails(r, nr_blocks)
        THEN [grp |-> r, ret |-> -EIO, bug |-> FALSE]
        ELSE [grp |-> [r EXCEPT
                         !.nvfs_metadata = meta,
                         !.nvfsio.nvfs_active_blocks_start = blockoff,
                         !.nvfsio.nvfs_active_blocks_end =
                             IF bad = {} THEN active_blocks_end(blockoff + nr_blocks)
                             ELSE @],
              ret |-> 0, bug |-> bad # {}]

\* a DMA-start check that does not tolerate re-entry
dma_state_only_queued(nvfs_state) == nvfs_state = NVFS_IO_QUEUED

\* lines 1260-1261, 1306-1307, 1353-1354: the states in which a block may be
\* when the DMA of it starts
dma_state_ok(nvfs_state) == nvfs_state \in {NVFS_IO_QUEUED, NVFS_IO_DMA_START}

\* lines 1234, 1300: the first block of the unit whose folio->index modulo
\* NVFS_MAX_SHADOW_PAGES is folio_idx (line 720)
dma_block_idx(folio_idx) ==
    (folio_idx % NVFS_MAX_SHADOW_PAGES) * nvfs_block_count_per_page

\* lines 1199-1206 of __nvfs_mgroup_from_folio: the unit is outside the
\* active range
folio_outside_active(nvfsio, folio_idx) ==
    LET folio_start_page == folio_idx % NVFS_MAX_SHADOW_PAGES
        folio_end_page == folio_start_page + BLOCKS_PER_FOLIO - 1
    IN  \/ nvfsio.nvfs_active_blocks_start \div nvfs_block_count_per_page
               > folio_end_page
        \/ nvfsio.nvfs_active_blocks_end \div nvfs_block_count_per_page
               < folio_start_page

\* nvfs_mgroup_from_page_range, lines 1234-1277, on the group bytes r for a
\* page of unit folio_idx: the metadata afterwards, the check at which the
\* loop stopped (exit) and the block nvfs_mpage points to at the end (blk,
\* -1 for NULL).  `adjacent` says whether the unit follows the one before it
\* in physical memory.
nvfs_mgroup_from_page_range(r, folio_idx, nblocks, start_offset, adjacent) ==
    LET block_idx == dma_block_idx(folio_idx) + start_offset \div NVFS_BLOCK_SIZE
        acc[i \in -1..(nblocks - 1)] ==
            IF i = -1
            THEN [meta |-> r.nvfs_metadata, exit |-> "none", blk |-> -1, prev |-> -1]
            ELSE LET p == acc[i - 1]
                     b == block_idx + i
                 IN  IF p.exit # "none" THEN p
                     ELSE IF (folio_idx + i \div nvfs_block_count_per_page)
                                 % NVFS_MAX_SHADOW_PAGES
                             > r.nvfsio.nvfs_active_blocks_end
                                   \div nvfs_block_count_per_page
                     THEN [p EXCEPT !.exit = "range"]
                     ELSE IF /\ p.prev >= 0
                             /\ p.meta[b + 1].folio # NULL
                             /\ p.meta[p.prev + 1].folio # NULL
                             /\ p.meta[b + 1].folio # p.meta[p.prev + 1].folio
                             /\ ~adjacent
                     THEN [p EXCEPT !.exit = "contig", !.blk = b]
                     ELSE IF ~dma_state_ok(p.meta[b + 1].nvfs_state)
                     THEN [p EXCEPT !.exit = "state", !.blk = b]
                     ELSE [p EXCEPT !.meta[b + 1].nvfs_state = NVFS_IO_DMA_START,
                                    !.blk = b, !.prev = b]
        a == acc[nblocks - 1]
    IN  IF a.exit # "none" /\ a.blk >= 0
        THEN [a EXCEPT !.meta[a.blk + 1].nvfs_state = NVFS_IO_DMA_ERROR]
        ELSE a

\* nvfs_mgroup_metadata_set_dma_state_folio, lines 1298-1327
nvfs_mgroup_metadata_set_dma_state_folio(r, folio_idx, bv_len, bv_offset) ==
    LET first == dma_block_idx(folio_idx) + METADATA_BLOCK_START_INDEX(bv_offset)
        last == dma_block_idx(folio_idx) + METADATA_BLOCK_END_INDEX(bv_offset, bv_len)
        bad == {i \in first..last : ~dma_state_ok(BlockState(r, i))}
        stop == IF bad = {} THEN last + 1 ELSE Least(bad)
    IN  [meta |-> [k \in 1..Len(r.nvfs_metadata) |->
                     IF k - 1 >= first /\ k - 1 < stop
                           /\ r.nvfs_metadata[k].nvfs_state = NVFS_IO_QUEUED
                     THEN [r.nvfs_metadata[k] EXCEPT !.nvfs_state = NVFS_IO_DMA_START]
                     ELSE IF k - 1 = stop /\ bad # {}
                     THEN [r.nvfs_metadata[k] EXCEPT !.nvfs_state = NVFS_IO_DMA_ERROR]
                     ELSE r.nvfs_metadata[k]],
         exit |-> IF bad = {} THEN "none" ELSE "state",
         blk |-> IF bad = {} THEN last ELSE stop]

\* the group thread t does its I/O on: the one it holds from its pin
IoGroup(t) == hnd[t].mg

\* thread t is outside every call and holds a live handle from a pin on
\* which one more call is followed
IoReady(t) ==
    /\ th[t].pc = "idle"
    /\ hnd[t].n > 0
    /\ <<"hnd", t>> \notin dangling
    /\ Allocated(hnd[t].mg)
    /\ mgroup[hnd[t].mg].calls < MaxCalls

\* vma->vm_start of the buffer that thread m mapped: the address its owner
\* passes as cpuvaddr
vm_start(m) == IF m = "m1" THEN 16 * GPU_PAGE_SIZE ELSE 32 * GPU_PAGE_SIZE

\* nvfs_mgroup_pin_shadow_pages on the buffer of an established mapping:
\* the lookup of the group through the first page, and the reset of every
\* block to NVFS_IO_INIT (line 412).  The caller pins the buffer to start an
\* operation on it (nvfs-core.c), with the descriptor and the result area
\* zeroed.
Pin(t) ==
    /\ th[t].pc = "idle"
    /\ hnd[t].n = 0
    /\ \E m \in Threads :
         LET g == vma[m].vm_private_data
         IN  /\ vma[m].mapped
             /\ g # NULL
             /\ g \in hash
             /\ Allocated(g)
             /\ mgroup' = [nvfs_mgroup_get_ref(mgroup, g) EXCEPT
                              ![g] = [nvfs_mgroup_check_and_set(
                                          @, NVFS_IO_INIT, TRUE, FALSE, FALSE, FALSE).grp
                                      EXCEPT !.nvfsio = ZeroIo, !.sparse = ZeroSparse,
                                             !.calls = 0,
                                             !.cpu_base_vaddr = vm_start(m)]]
             /\ hnd' = [hnd EXCEPT ![t] = [mg |-> g, n |-> 1]]
             /\ out' = [out EXCEPT ![g] = @ + 1]
             /\ th' = [th EXCEPT ![t] = [@ EXCEPT !.pc = "ret", !.op = "pin",
                                                  !.ret = 0, !.net = 1]]
    /\ UNCHANGED <<heap, hash, lock, vma, gp_wait, pinref, dangling>>

\* the caller sets up the descriptor of a new operation (nvfs-core.c) and
\* calls nvfs_mgroup_fill_mpages(nvfs_mgroup, nr_blocks)
FillMpages(t, op, nr_blocks, gpu_page_offset) ==
    /\ IoReady(t)
    /\ LET g == IoGroup(t)
           r0 == [mgroup[g] EXCEPT !.nvfsio.op = op,
                                   !.nvfsio.gpu_page_offset = gpu_page_offset,
                                   !.nvfsio.length = nr_blocks * NVFS_BLOCK_SIZE,
                                   !.nvfsio.ret = 0,
                                   !.nvfsio.check_sparse = FALSE,
                                   !.nvfsio.state = "NVFS_IO_META_CLEAN"]
           f == nvfs_mgroup_fill_mpages(r0, nr_blocks)
       IN  /\ mgroup' = [mgroup EXCEPT ![g] = [f.grp EXCEPT !.calls = @ + 1]]
           /\ th' = [th EXCEPT ![t] = [@ EXCEPT
                        !.pc = IF f.bug THEN "bug" ELSE "ret",
                        !.op = "fill_mpages", !.nvfs_mgroup = g,
                        !.args = <<nr_blocks, gpu_page_offset>>,
                        !.ret = f.ret]]
    /\ UNCHANGED <<heap, hash, lock, hnd, vma, gp_wait, pinref, out, dangling>>

\* an error exit that returns with the reference still held
dma_error_no_release(t) == "ret"

\* what the error exits of the DMA-start calls do with the group before they
\* return: nvfs_mgroup_put (lines 1276, 1311, 1358)
dma_error_release(t) == "put"

\* nvfs_mgroup_from_page_range(page, nblocks, start_offset) for a page of
\* unit folio_idx of the group: the lookup of __nvfs_mgroup_from_folio, which
\* takes a reference, and the loop
FromPageRange(t, folio_idx, nblocks, start_offset, adjacent) ==
    /\ IoReady(t)
    /\ LET g == IoGroup(t)
           r == mgroup[g]
           a == nvfs_mgroup_from_page_range(r, folio_idx, nblocks, start_offset,
                                            adjacent)
           lookup_fails == folio_outside_active(r.nvfsio, folio_idx)
       IN  /\ g \in hash
           /\ <<"folio", g, folio_idx + 1>> \in heap
           /\ dma_block_idx(folio_idx) + start_offset \div NVFS_BLOCK_SIZE + nblocks
                  <= r.nvfs_blocks_count
           /\ mgroup' = [nvfs_mgroup_get_ref(mgroup, g) EXCEPT
                            ![g].nvfs_metadata =
                                IF lookup_fails THEN @ ELSE a.meta,
                            ![g].calls = @ + 1]
           /\ out' = [out EXCEPT ![g] = @ + 1]
           /\ th' = [th EXCEPT ![t] = [@ EXCEPT
                        !.op = "from_page_range", !.nvfs_mgroup = g,
                        !.args = <<folio_idx, start_offset, nblocks>>,
                        !.net = 1,
                        !.exit = IF lookup_fails THEN "lookup" ELSE a.exit,
                        !.blk = IF lookup_fails THEN -1 ELSE a.blk,
                        !.pc = IF lookup_fails \/ a.exit # "none"
                               THEN dma_error_release(t) ELSE "dma_done",
                        !.cont = "ret",
                        !.ret = IF lookup_fails \/ a.exit # "none" THEN -EIO ELSE 0]]
    /\ UNCHANGED <<heap, hash, lock, hnd, vma, gp_wait, pinref, dangling>>

\* nvfs_mgroup_from_folio(folio) for unit folio_idx of the group: the lookup,
\* which takes a reference, and the check of the first block of the unit
\* (lines 1350-1361)
FromFolio(t, folio_idx) ==
    /\ IoReady(t)
    /\ LET g == IoGroup(t)
           r == mgroup[g]
           folio_start_block == (folio_idx % NVFS_MAX_SHADOW_PAGES) * BLOCKS_PER_FOLIO
           lookup_fails == folio_outside_active(r.nvfsio, folio_idx)
           wrong == ~lookup_fails /\ ~dma_state_ok(BlockState(r, folio_start_block))
       IN  /\ g \in hash
           /\ <<"folio", g, folio_idx + 1>> \in heap
           /\ mgroup' = [nvfs_mgroup_get_ref(mgroup, g) EXCEPT
                            ![g].nvfs_metadata[folio_start_block + 1].nvfs_state =
                                IF wrong THEN NVFS_IO_DMA_ERROR ELSE @,
                            ![g].calls = @ + 1]
           /\ out' = [out EXCEPT ![g] = @ + 1]
           /\ th' = [th EXCEPT ![t] = [@ EXCEPT
                        !.op = "from_folio", !.nvfs_mgroup = g,
                        !.args = <<folio_idx>>,
                        !.net = 1,
                        !.exit = IF lookup_fails THEN "lookup"
                                 ELSE IF wrong THEN "state" ELSE "none",
                        !.blk = IF lookup_fails THEN -1 ELSE folio_start_block,
                        !.pc = IF lookup_fails \/ wrong
                               THEN dma_error_release(t) ELSE "dma_folio",
                        !.cont = "ret",
                        !.ret = IF lookup_fails \/ wrong THEN -EIO ELSE 0]]
    /\ UNCHANGED <<heap, hash, lock, hnd, vma, gp_wait, pinref, dangling>>

\* nvfs_mgroup_metadata_set_dma_state_folio(folio, nvfs_mgroup, bv_len,
\* bv_offset) on the group and the unit that nvfs_mgroup_from_folio returned
SetDmaStateFolio(t, bv_len, bv_offset) ==
    /\ th[t].pc = "dma_folio"
    /\ <<"loc", t>> \notin dangling
    /\ LET g == th[t].nvfs_mgroup
           r == mgroup[g]
           folio_idx == th[t].args[1]
           a == nvfs_mgroup_metadata_set_dma_state_folio(r, folio_idx, bv_len,
                                                         bv_offset)
       IN  /\ dma_block_idx(folio_idx) + METADATA_BLOCK_END_INDEX(bv_offset, bv_len)
                  < r.nvfs_blocks_count
           /\ mgroup' = [mgroup EXCEPT ![g].nvfs_metadata = a.meta]
           /\ th' = [th EXCEPT ![t] = [@ EXCEPT
                        !.op = "set_dma_state",
                        !.args = <<folio_idx, bv_offset, bv_len>>,
                        !.exit = a.exit, !.blk = a.blk,
                        !.pc = IF a.exit # "none"
                               THEN dma_error_release(t) ELSE "dma_done",
                        !.cont = "ret",
                        !.ret = IF a.exit # "none" THEN -EIO ELSE 0]]
    /\ UNCHANGED <<heap, hash, lock, hnd, vma, gp_wait, pinref, out, dangling>>

\* the DMA mappings of one group that wait for their probe at a time
MaxDmaRef == 2

\* the caller of a DMA-start call that succeeded maps the blocks, counts the
\* mapping in dma_ref and keeps the reference of the lookup for the probe
\* that follows the transfer (nvfs-dma.c)
DmaHold(t) ==
    /\ th[t].pc = "dma_done"
    /\ mgroup[th[t].nvfs_mgroup].dma_ref < MaxDmaRef
    /\ mgroup' = [mgroup EXCEPT ![th[t].nvfs_mgroup].dma_ref = @ + 1]
    /\ th' = Leave(t)
    /\ UNCHANGED <<heap, hash, lock, hnd, vma, gp_wait, pinref, out, dangling>>

\* the caller of a DMA-start call that succeeded maps the blocks and gives
\* the reference back (nvfs-dma.c): nvfs_mgroup_put
DmaPut(t) ==
    /\ th[t].pc = "dma_done"
    /\ th' = [th EXCEPT ![t] = [@ EXCEPT !.pc = "put", !.cont = "idle"]]
    /\ UNCHANGED <<heap, mgroup, hash, lock, hnd, vma, gp_wait, pinref, out, dangling>>

\* the completion path records the byte count of the operation in
\* nvfsio->ret (nvfs-core.c) and calls
\* nvfs_mgroup_check_and_set(nvfs_mgroup, NVFS_IO_DONE, validate,
\* update_nvfsio)
CheckAndSetDone(t, bytes, validate, exiting, in_interrupt, update_nvfsio) ==
    /\ IoReady(t)
    /\ LET g == IoGroup(t)
           c == nvfs_mgroup_check_and_set(
                    [mgroup[g] EXCEPT !.nvfsio.ret = bytes],
                    NVFS_IO_DONE, validate, update_nvfsio, exiting, in_interrupt)
       IN  /\ mgroup' = [mgroup EXCEPT ![g] = [c.grp EXCEPT !.calls = @ + 1]]
           /\ th' = [th EXCEPT ![t] = [@ EXCEPT
                        !.pc = IF c.bug THEN "bug" ELSE "ret",
                        !.op = "check_and_set", !.nvfs_mgroup = g,
                        !.args = <<bytes, validate, exiting, in_interrupt,
                                   update_nvfsio>>,
                        !.locals = <<c.ret, c.sparse_read_bytes_limit>>,
                        !.ret = c.grp.nvfsio.ret]]
    /\ UNCHANGED <<heap, hash, lock, hnd, vma, gp_wait, pinref, out, dangling>>

\* struct folio as the reverse lookup reads it: its address, folio->index and
\* folio->mapping.  Unit folio_idx of the group in slot g (line 720)
UnitFolio(m, g, folio_idx) ==
    [ptr |-> m[g].nvfs_folios[folio_idx + 1],
     index |-> m[g].base_index * NVFS_MAX_SHADOW_PAGES + folio_idx,
     mapping |-> NULL]

\* a folio of the page cache, and an anonymous folio that is no unit of the
\* group but carries the index of its first unit
FileFolio == [ptr |-> 999, index |-> 5, mapping |-> 1]
AliasFolio(m, g) ==
    [ptr |-> 998, index |-> m[g].base_index * NVFS_MAX_SHADOW_PAGES, mapping |-> NULL]

\* __nvfs_mgroup_from_folio(folio, check_dma_error), with the registry h and
\* the groups m: what it returns (result "NULL", "ERR" for ERR_PTR(-EIO), or
\* "group" with the handle g), the group it looked up (g), whether it gave
\* the reference of the lookup back itself (put), and the check that ended
\* the call (exit)
__nvfs_mgroup_from_folio(m, h, folio, check_dma_error) ==
    LET base_index == folio.index \div NVFS_MAX_SHADOW_PAGES
        found == {g \in h : m[g].base_index = base_index}
    IN  IF folio.ptr = NULL \/ folio.mapping # NULL
        THEN [result |-> "NULL", g |-> NULL, put |-> FALSE, exit |-> "mapping"]
        ELSE IF base_index < NVFS_MIN_BASE_INDEX
        THEN [result |-> "NULL", g |-> NULL, put |-> FALSE, exit |-> "index"]
        ELSE IF found = {}
        THEN [result |-> "NULL", g |-> NULL, put |-> FALSE, exit |-> "get"]
        ELSE
        LET g == CHOOSE x \in found : TRUE
            r == m[g]
            folio_idx == folio.index % NVFS_MAX_SHADOW_PAGES
            found_folio == /\ folio_idx < r.nvfs_folios_count
                           /\ r.nvfs_folios[folio_idx + 1] = folio.ptr
            start_block == folio_idx * (GPU_PAGE_SIZE \div NVFS_BLOCK_SIZE)
            blocks == {i \in start_block..(start_block + BLOCKS_PER_FOLIO - 1) :
                          i < r.nvfs_blocks_count}
            invalid(i) == \/ r.nvfs_metadata[i + 1].nvfs_start_magic # NVFS_START_MAGIC
                          \/ r.nvfs_metadata[i + 1].folio # folio.ptr
            failed(i) == check_dma_error /\ BlockState(r, i) = NVFS_IO_DMA_ERROR
            stops == {i \in blocks : invalid(i) \/ failed(i)}
        IN  IF ~found_folio
            THEN [result |-> "NULL", g |-> g, put |-> TRUE, exit |-> "folio"]
            ELSE IF stops # {} /\ invalid(Least(stops))
            THEN [result |-> "NULL", g |-> g, put |-> TRUE, exit |-> "metadata"]
            ELSE IF stops # {}
            THEN [result |-> "ERR", g |-> g, put |-> TRUE, exit |-> "dma_error"]
            ELSE IF folio_outside_active(r.nvfsio, folio_idx)
            THEN [result |-> "ERR", g |-> g, put |-> TRUE, exit |-> "lookup"]
            ELSE [result |-> "group", g |-> g, put |-> FALSE, exit |-> "none"]

\* the folio a probe is called with: unit 0 or 1 of the pinned buffer, a
\* folio of the page cache, or a folio that only carries a unit's index
ProbeFolio(m, g, k) ==
    CASE k = "unit0" -> UnitFolio(m, g, 0)
      [] k = "unit1" -> UnitFolio(m, g, 1)
      [] k = "file" -> FileFolio
      [] OTHER -> AliasFolio(m, g)

\* nvfs_is_gpu_folio(folio): the lookup and, for a handle, nvfs_mgroup_put
\* (line 1389); the value returned is 1 for true and 0 for false
nvfs_is_gpu_folio_ret(result) == IF result = "NULL" THEN 0 ELSE 1

\* nvfs_check_gpu_folio_and_error, lines 1416-1431: the value returned for
\* what the lookup returned
gpu_folio_and_error_ret(result) ==
    IF result = "NULL" THEN 0 ELSE IF result = "ERR" THEN -1 ELSE 1

\* a decrement that does not look at the value
atomic_dec(v) == v - 1

\* atomic_dec_if_positive(&nvfs_mgroup->dma_ref), line 1423: the value stored
\* (the value returned is v - 1 in both cases)
atomic_dec_if_positive(v) == IF v - 1 < 0 THEN v ELSE v - 1

\* nvfs_is_gpu_folio (check_dma_error FALSE) and
\* nvfs_check_gpu_folio_and_error (check_dma_error TRUE) on folio k, by a
\* thread of the completion path.  The reference of the lookup is given back
\* inside the lookup when it fails and by the probe when it returns a handle:
\* nvfs_is_gpu_folio puts it at once, nvfs_check_gpu_folio_and_error goes on
\* to dma_ref (line 1423).
GpuFolioProbe(t, k, check_dma_error) ==
    /\ IoReady(t)
    /\ LET folio == ProbeFolio(mgroup, IoGroup(t), k)
           a == __nvfs_mgroup_from_folio(mgroup, hash, folio, check_dma_error)
       IN  /\ IoGroup(t) \in hash
           /\ mgroup' = IF a.g = NULL THEN mgroup ELSE nvfs_mgroup_get_ref(mgroup, a.g)
           /\ out' = IF a.g = NULL THEN out ELSE [out EXCEPT ![a.g] = @ + 1]
           /\ th' = [th EXCEPT ![t] = [@ EXCEPT
                        !.op = IF check_dma_error THEN "check_gpu_folio_and_error"
                               ELSE "is_gpu_folio",
                        !.nvfs_mgroup = a.g,
                        !.args = <<k>>,
                        !.net = IF a.g = NULL THEN 0 ELSE 1,
                        !.exit = a.exit,
                        !.pc = IF a.g = NULL THEN "ret"
                               ELSE IF check_dma_error /\ a.result = "group"
                                    THEN "dec_dma_ref" ELSE "put",
                        !.cont = "ret",
                        !.ret = IF check_dma_error
                                THEN gpu_folio_and_error_ret(a.result)
                                ELSE nvfs_is_gpu_folio_ret(a.result)]]
    /\ UNCHANGED <<heap, hash, lock, hnd, vma, gp_wait, pinref, dangling>>

\* nvfs_check_gpu_folio_and_error, lines 1423-1429: atomic_dec_if_positive
\* of dma_ref; when a DMA mapping was counted the probe puts the reference
\* of that mapping (line 1427) before it puts its own (line 1429)
ProbeDmaRef(t) ==
    /\ th[t].pc = "dec_dma_ref"
    /\ LET g == th[t].nvfs_mgroup
           returned == mgroup[g].dma_ref - 1
       IN  /\ mgroup' = [mgroup EXCEPT ![g].dma_ref = atomic_dec_if_positive(@)]
           /\ th' = [th EXCEPT ![t] = [@ EXCEPT
                        !.pc = "put",
                        !.cont = IF returned < 0 THEN "ret" ELSE "put_dma",
                        !.locals = <<returned>>]]
    /\ UNCHANGED <<heap, hash, lock, hnd, vma, gp_wait, pinref, out, dangling>>

\* line 1429: the second nvfs_mgroup_put_dma of a probe that found a DMA
\* mapping counted
ProbePutDma(t) ==
    /\ th[t].pc = "put_dma"
    /\ th' = [th EXCEPT ![t] = [@ EXCEPT !.pc = "put", !.cont = "ret"]]
    /\ UNCHANGED <<heap, mgroup, hash, lock, hnd, vma, gp_wait, pinref, out, dangling>>

(***************************************************************************)
(* The system                                                              *)
(***************************************************************************)
\* a mapping call that passes the precondition checks, and the run of the
\* allocations in which nothing fails
GoodFlags == VM_RW \cup {"VM_SHARED"}
GoodArgs == <<4096, GoodFlags>>
NoFault == [kind |-> "none", at |-> 0]

\* nvfs_mgroup_get / nvfs_mgroup_get_ref / nvfs_mgroup_put by thread t
Lookup(t) ==
    \/ \E k \in Keys : GetFind(t, k)
    \/ GetInc(t)
    \/ GetRef(t)
    \/ Release(t)

\* nvfs_mgroup_put_internal and nvfs_mgroup_free by thread t, up to the free
Teardown(t) ==
    \/ PutRef(t)
    \/ \E rc \in {0, -1} : FreeGpuInfo(t, rc)
    \/ FreeUnlink(t)
    \/ FreeMem(t)

\* nvfs_mgroup_mmap_internal by thread t, for the calls in `args` and the
\* allocation outcomes in `faults`
Mmap(t, args, faults) ==
    \/ \E a \in args : MmapStart(t, a[1], a[2])
    \/ MmapLock(t)
    \/ \E k \in Keys : MmapProbe(t, k)
    \/ MmapLink(t)
    \/ MmapUnlock(t)
    \/ \E f \in faults : MmapPopulate(t, f)
    \/ Return(t)

\* nvfs_vma_close by thread t
Close(t) ==
    \/ CloseStart(t)
    \/ CloseDone(t)
    \/ CloseEnd(t)

\* nvfs_mgroup_get and nvfs_mgroup_put by thread t
GetPut(t) ==
    \/ \E k \in Keys : GetFind(t, k)
    \/ GetInc(t)
    \/ Release(t)

\* the accelerator side acting through thread t
Accelerator(t) ==
    \/ NvfsMap(t)
    \/ IoStart(t)
    \/ IoEnd(t)
    \/ \E g \in Slots : NvfsFreeCallback(t, g)

\* Lookups against a mapping: thread m1 maps, looks its group up and unmaps;
\* thread io1 looks the group up, takes extra references and releases them.
\* Threads are followed through their uses of freed storage.
NextLookup ==
    \/ \E t \in {"m1"} : Mmap(t, {GoodArgs}, {NoFault}) \/ Close(t)
                         \/ GetPut(t)
    \/ \E t \in {"io1"} : Lookup(t)
    \/ \E t \in {"m1", "io1"} : Teardown(t)

SpecLookup == Init /\ [][NextLookup]_vars

\* Concurrent inserts and teardowns: threads m1 and m2 map, with every call
\* tried, and unmap.
NextInsert ==
    \/ \E t \in Mappers : Mmap(t, MmapArgs, {NoFault}) \/ Close(t)
    \/ \E t \in Mappers : Teardown(t)

SpecInsert == Init /\ [][NextInsert]_vars

\* thread t holds a pointer to storage that has been freed: the next use of
\* the pointer is a use after free
UsesFreed(t) == \E p \in dangling : p[2] = t

\* Mapping establishment with every allocation outcome tried: thread m1 maps
\* one block or two units and unmaps, thread io1 looks the group up and
\* releases it.  A thread is followed until it holds a pointer to freed
\* storage.
NextMmap ==
    \/ \E t \in {"m1"} : ~UsesFreed(t) /\
           (Mmap(t, {4096, 131072} \X {GoodFlags}, Faults(th[t].length)) \/ Close(t))
    \/ \E t \in {"io1"} : ~UsesFreed(t) /\ GetPut(t)
    \/ \E t \in {"m1", "io1"} : ~UsesFreed(t) /\ Teardown(t)

SpecMmap == Init /\ [][NextMmap]_vars

\* The accelerator side: thread m1 maps and unmaps; thread io1 looks the group
\* up, maps the accelerator buffer, runs I/O and delivers the free callback.
\* A thread is followed until it holds a pointer to freed storage.
NextGpu ==
    \/ \E t \in {"m1"} : ~UsesFreed(t) /\
           (Mmap(t, {GoodArgs}, {NoFault}) \/ Close(t))
    \/ \E t \in {"io1"} : ~UsesFreed(t) /\ (GetPut(t) \/ Accelerator(t))
    \/ \E t \in {"m1", "io1"} : ~UsesFreed(t) /\ (Teardown(t) \/ FreeAbort(t))

SpecGpu == Init /\ [][NextGpu]_vars

\* the steps of thread t in NextGpu
GpuStep(t) ==
    /\ ~UsesFreed(t)
    /\ \/ t = "m1" /\ (Mmap(t, {GoodArgs}, {NoFault}) \/ Close(t))
       \/ t = "io1" /\ (GetPut(t) \/ Accelerator(t))
       \/ Teardown(t) \/ FreeAbort(t)

\* The accelerator side under fair scheduling: a thread that can take a step
\* is not kept from taking it for ever (the scheduler runs every runnable
\* thread; spin_lock, synchronize_rcu and the waits of the callers are the
\* guards of the steps).
FairGpu == SpecGpu /\ \A t \in {"m1", "io1"} : WF_vars(GpuStep(t))

\* the calls of nvfs_mgroup_fill_mpages tried: the direction of the
\* operation, nr_blocks and the start offset in the accelerator page
FillArgs ==
    ({"READ"} \X {0, 1, 10, 17, 33} \X {0})
    \cup ({"READ"} \X {0, 1, 10} \X {4096, 61440})
    \cup ({"READ"} \X {1} \X {100, 65536})
    \cup {<<"WRITE", 10, 0>>}

\* the calls of nvfs_mgroup_from_page_range tried: the unit of the page,
\* start_offset and nblocks
RangeArgs == {<<0, 0, 2>>, <<0, 16384, 3>>, <<0, 32768, 2>>, <<0, 61440, 2>>,
              <<1, 0, 1>>}

\* the calls of nvfs_mgroup_metadata_set_dma_state_folio tried: bv_len and
\* bv_offset
ByteArgs == {<<4096, 0>>, <<8192, 8192>>}

\* the completions tried: the byte count, validate, PF_EXITING of current,
\* in_interrupt(), and update_nvfsio
DoneArgs ==
    ({0, 24576, 40960, -ERESTARTSYS} \X {TRUE} \X {FALSE} \X {FALSE} \X {TRUE})
    \cup {<<40960, FALSE, FALSE, FALSE, TRUE>>,
          <<-ERESTARTSYS, FALSE, FALSE, FALSE, TRUE>>,
          <<40960, TRUE, TRUE, FALSE, TRUE>>, <<40960, TRUE, TRUE, TRUE, TRUE>>,
          <<40960, TRUE, FALSE, TRUE, TRUE>>,
          <<24576, TRUE, FALSE, FALSE, FALSE>>}

\* nvfs_get_mgroup_from_vaddr_internal(cpuvaddr), with the registry h, the
\* groups m and the mappings v: the checks of the address (lines 225-236),
\* pin_user_pages_fast of its page, which fails outside every mapping (238-244),
\* the lookup of the group of the page's folio (246-256), the comparison with
\* cpu_base_vaddr (258-263) and the check of the block's metadata (265-274).
\* The record is that of __nvfs_mgroup_from_folio.
nvfs_get_mgroup_from_vaddr_internal(m, h, v, cpuvaddr) ==
    LET owners == {u \in Threads :
                      /\ v[u].mapped
                      /\ v[u].vm_private_data # NULL
                      /\ cpuvaddr >= vm_start(u)
                      /\ cpuvaddr < vm_start(u)
                            + m[v[u].vm_private_data].nvfs_blocks_count * NVFS_BLOCK_SIZE}
    IN  IF cpuvaddr = 0
        THEN [result |-> "NULL", g |-> NULL, put |-> FALSE, exit |-> "cpuvaddr"]
        ELSE IF cpuvaddr % NVFS_BLOCK_SIZE # 0
        THEN [result |-> "NULL", g |-> NULL, put |-> FALSE, exit |-> "aligned"]
        ELSE IF owners = {}
        THEN [result |-> "NULL", g |-> NULL, put |-> FALSE, exit |-> "pin_user_pages"]
        ELSE
        LET u == CHOOSE x \in owners : TRUE
            folio == UnitFolio(m, v[u].vm_private_data,
                               (cpuvaddr - vm_start(u)) \div GPU_PAGE_SIZE)
            cur_base_index == folio.index \div NVFS_MAX_SHADOW_PAGES
            found == {g \in h : m[g].base_index = cur_base_index}
        IN  IF found = {}
            THEN [result |-> "NULL", g |-> NULL, put |-> FALSE, exit |-> "get"]
            ELSE
            LET g == CHOOSE x \in found : TRUE
                block_offset_in_folio == (cpuvaddr % GPU_PAGE_SIZE) \div NVFS_BLOCK_SIZE
                i == (folio.index % NVFS_MAX_SHADOW_PAGES) * BLOCKS_PER_FOLIO
                        + block_offset_in_folio
            IN  IF cpuvaddr # m[g].cpu_base_vaddr
                THEN [result |-> "NULL", g |-> g, put |-> TRUE, exit |-> "mismatch"]
                ELSE IF \/ m[g].nvfs_metadata[i + 1].nvfs_start_magic # NVFS_START_MAGIC
                        \/ m[g].nvfs_metadata[i + 1].folio # folio.ptr
                THEN [result |-> "NULL", g |-> g, put |-> TRUE, exit |-> "metadata"]
                ELSE [result |-> "group", g |-> g, put |-> FALSE, exit |-> "none"]

\* the addresses nvfs_get_mgroup_from_vaddr is called with: none, the start
\* of the buffer, an address inside its first block, its second block, and
\* an address that is not mapped
VaddrArgs == {0, vm_start("m1"), vm_start("m1") + 100,
              vm_start("m1") + NVFS_BLOCK_SIZE, 8 * GPU_PAGE_SIZE}

\* nvfs_get_mgroup_from_vaddr(cpuvaddr), lines 286-301.  The reference of the
\* lookup is given back at `failed` (line 279); a handle returned is the
\* caller's, who releases it when it is done.
FromVaddr(t, cpuvaddr) ==
    /\ IoReady(t)
    /\ LET a == nvfs_get_mgroup_from_vaddr_internal(mgroup, hash, vma, cpuvaddr)
       IN  /\ IoGroup(t) \in hash
           /\ mgroup' = IF a.g = NULL THEN mgroup ELSE nvfs_mgroup_get_ref(mgroup, a.g)
           /\ out' = IF a.g = NULL THEN out ELSE [out EXCEPT ![a.g] = @ + 1]
           /\ th' = [th EXCEPT ![t] = [@ EXCEPT
                        !.op = "from_vaddr",
                        !.nvfs_mgroup = a.g,
                        !.args = <<cpuvaddr>>,
                        !.net = IF a.g = NULL THEN 0 ELSE 1,
                        !.exit = a.exit,
                        !.pc = IF a.g = NULL THEN "ret"
                               ELSE IF a.put THEN "put" ELSE "dma_done",
                        !.cont = "ret",
                        !.ret = IF a.result = "group" THEN 0 ELSE NULL]]
    /\ UNCHANGED <<heap, hash, lock, hnd, vma, gp_wait, pinref, dangling>>

\* gpu_info.pdevinfo of a group: the device the accelerator buffer is on, or
\* 0 when none was recorded.  nvfs_map, which records it, is in nvfs-core.c.
PdevInfo == {0, 1}

\* UINT_MAX as the int with the same 32 bits, and
\* nvfs_get_gpu_hash_index(pdevinfo) for the one device
UINT_MAX == -1
nvfs_get_gpu_hash_index(pdevinfo) == 0

\* nvfs_gpu_index_from_folio(folio), lines 1453-1475, on folio k of a group
\* whose pdevinfo is the one given: the lookup, and for a handle the release
\* on either branch (lines 1470, 1474)
GpuIndexFromFolio(t, k, pdevinfo) ==
    /\ IoReady(t)
    /\ LET folio == ProbeFolio(mgroup, IoGroup(t), k)
           a == __nvfs_mgroup_from_folio(mgroup, hash, folio, FALSE)
       IN  /\ IoGroup(t) \in hash
           /\ mgroup' = IF a.g = NULL THEN mgroup ELSE nvfs_mgroup_get_ref(mgroup, a.g)
           /\ out' = IF a.g = NULL THEN out ELSE [out EXCEPT ![a.g] = @ + 1]
           /\ th' = [th EXCEPT ![t] = [@ EXCEPT
                        !.op = "gpu_index",
                        !.nvfs_mgroup = a.g,
                        !.args = <<k, pdevinfo>>,
                        !.net = IF a.g = NULL THEN 0 ELSE 1,
                        !.exit = a.exit,
                        !.pc = IF a.g = NULL THEN "ret" ELSE "put",
                        !.cont = "ret",
                        !.ret = IF a.result # "group" \/ pdevinfo = 0
                                THEN UINT_MAX
                                ELSE nvfs_get_gpu_hash_index(pdevinfo)]]
    /\ UNCHANGED <<heap, hash, lock, hnd, vma, gp_wait, pinref, dangling>>

\* the folios the probes are called with
ProbeArgs == {"unit0", "unit1", "file", "alias"}

\* the block state machine driven by thread t
BlockIo(t) ==
    \/ Pin(t)
    \/ \E a \in FillArgs : FillMpages(t, a[1], a[2], a[3])
    \/ \E a \in RangeArgs, adjacent \in BOOLEAN :
           FromPageRange(t, a[1], a[3], a[2], adjacent)
    \/ \E folio_idx \in {0, 1} : FromFolio(t, folio_idx)
    \/ \E a \in ByteArgs : SetDmaStateFolio(t, a[1], a[2])
    \/ DmaPut(t)
    \/ \E a \in DoneArgs : CheckAndSetDone(t, a[1], a[2], a[3], a[4], a[5])
    \/ \E k \in ProbeArgs, check_dma_error \in BOOLEAN :
           GpuFolioProbe(t, k, check_dma_error)
    \/ ProbeDmaRef(t)
    \/ PutRef(t)
    \/ Release(t)
    \/ Return(t)

\* the checks at which nvfs_mgroup_pin_shadow_pages gives up: the address
\* (lines 315-326), kmalloc_array (335-340), pin_user_pages_fast (350-358),
\* the mapping of the folio of page j (371-376), nvfs_mgroup_get for the
\* first page (380-382)
PinFaults == {"cpuvaddr", "kmalloc", "pin_user_pages", "mapping", "get"}

\* the pages at which a folio with a mapping is met: the first page, or the
\* first page behind the first unit
PinFaultPages == {0, GPU_PAGE_SIZE \div PAGE_SIZE}

\* lines 371-382: whether the loop has taken the reference of the first page's
\* group when it leaves at page j through `goto out`
pin_holds_reference(fault, j) == fault = "mapping" /\ j >= 1

\* references left behind by failed pins that the model follows
MaxLeaked == 2

\* nvfs_mgroup_pin_shadow_pages returning NULL.  The address range starts on a
\* page of the buffer that thread m mapped; with `mapping` at page j >= 1 the
\* range runs into pages that are not shadow pages (an address inside the
\* buffer with the length of the buffer, and memory mapped behind it).
\* Neither `failed` nor `out` (lines 416-423) releases a reference.
PinFail(t, fault, j) ==
    /\ th[t].pc = "idle"
    /\ hnd[t].n = 0
    /\ \E m \in Threads :
         LET g == vma[m].vm_private_data
         IN  /\ vma[m].mapped
             /\ g # NULL
             /\ g \in hash
             /\ Allocated(g)
             /\ IF pin_holds_reference(fault, j)
                THEN /\ mgroup[g].ref < 1 + MaxLeaked
                     /\ mgroup' = nvfs_mgroup_get_ref(mgroup, g)
                     /\ out' = [out EXCEPT ![g] = @ + 1]
                     /\ th' = [th EXCEPT ![t] = [@ EXCEPT !.pc = "ret", !.op = "pin",
                                                          !.ret = NULL, !.exit = fault,
                                                          !.args = <<j>>, !.net = 1]]
                ELSE /\ UNCHANGED <<mgroup, out>>
                     /\ th' = [th EXCEPT ![t] = [@ EXCEPT !.pc = "ret", !.op = "pin",
                                                          !.ret = NULL, !.exit = fault,
                                                          !.args = <<j>>, !.net = 0]]
    /\ UNCHANGED <<heap, hash, lock, hnd, vma, gp_wait, pinref, dangling>>

\* the calls of thread t in the pinning of a buffer: pins that succeed and
\* pins that fail, the queueing of blocks in between, and the unpin
PinCalls(t) ==
    \/ Pin(t)
    \/ \E fault \in PinFaults, j \in PinFaultPages : PinFail(t, fault, j)
    \/ \E a \in FillArgs : FillMpages(t, a[1], a[2], a[3])
    \/ PutRef(t)
    \/ Release(t)
    \/ Return(t)

\* the length of the buffer the I/O runs on: 32 blocks in two units
IoLength == 2 * GPU_PAGE_SIZE

\* nvfs_mgroup_mmap_internal by thread t for the I/O buffer, with the group
\* at the first address and under the first key
MmapIo(t) ==
    \/ MmapStart(t, IoLength, GoodFlags) /\ (\A s \in Slots \ {1} : GroupObj(s) \notin heap')
    \/ MmapLock(t)
    \/ MmapProbe(t, NVFS_MIN_BASE_INDEX)
    \/ MmapLink(t)
    \/ MmapUnlock(t)
    \/ MmapPopulate(t, NoFault)
    \/ Return(t)

\* I/O on a mapping: thread m1 maps the buffer; thread io1 pins
\* it, queues blocks, starts DMA on them and completes the operation, in
\* every order, and unpins.
NextIo ==
    \/ \E t \in {"m1"} : MmapIo(t)
    \/ \E t \in {"io1"} : BlockIo(t)

SpecIo == Init /\ [][NextIo]_vars

\* The pinning of a buffer: thread m1 maps the buffer; thread io1 pins it
\* with address ranges that are accepted and with ranges that are not,
\* queues blocks, and unpins.
NextPin ==
    \/ \E t \in {"m1"} : MmapIo(t)
    \/ \E t \in {"io1"} : PinCalls(t)

SpecPin == Init /\ [][NextPin]_vars

\* the reverse lookups by thread t on the buffer it has pinned: by folio, by
\* page range, by address, and the probes, between the queueing of blocks
\* and the DMA-start calls that change what the lookups find
ReverseLookups(t) ==
    \/ Pin(t)
    \/ \E a \in FillArgs : FillMpages(t, a[1], a[2], a[3])
    \/ \E a \in RangeArgs, adjacent \in BOOLEAN :
           FromPageRange(t, a[1], a[3], a[2], adjacent)
    \/ \E folio_idx \in {0, 1} : FromFolio(t, folio_idx)
    \/ \E a \in ByteArgs : SetDmaStateFolio(t, a[1], a[2])
    \/ DmaPut(t)
    \/ \E k \in ProbeArgs, check_dma_error \in BOOLEAN :
           GpuFolioProbe(t, k, check_dma_error)
    \/ ProbeDmaRef(t)
    \/ ProbePutDma(t)
    \/ DmaHold(t)
    \/ \E cpuvaddr \in VaddrArgs : FromVaddr(t, cpuvaddr)
    \/ \E k \in ProbeArgs, pdevinfo \in PdevInfo : GpuIndexFromFolio(t, k, pdevinfo)
    \/ PutRef(t)
    \/ Release(t)
    \/ Return(t)

\* Reverse lookups: thread m1 maps the buffer; thread io1 pins it, queues
\* blocks and looks the group up through its units and its address.
NextRev ==
    \/ \E t \in {"m1"} : MmapIo(t)
    \/ \E t \in {"io1"} : ReverseLookups(t)

SpecRev == Init /\ [][NextRev]_vars

(***************************************************************************)
(* Claims                                                                  *)
(***************************************************************************)
\* C1: a handle returned by nvfs_mgroup_get is never freed while its caller
\* still holds it: between the lookup that returned the handle and the
\* caller's matching nvfs_mgroup_put, the group's storage is not kfree'd.
C1_HandleNeverFreed ==
    \A t \in Threads : hnd[t].n > 0 => <<"hnd", t>> \notin dangling

\* C2: a group is freed only when as many references have been released as
\* were handed out by insert, lookup and nvfs_mgroup_get_ref: storage with a
\* reference outstanding is allocated.
C2_FreedOnlyWhenBalanced ==
    \A s \in Slots : out[s] > 0 => Allocated(s)

\* C4: a group is linked in the registry iff its reference count is at least
\* 1; in particular no lookup finds a group whose reference count is 0.
C4_NoLookupFindsUnreferenced ==
    \A t \in Threads : InRcuRead(t) /\ th[t].cur # NULL => mgroup[th[t].cur].ref >= 1

\* C5: teardown frees a group only after unlinking it under the lock and
\* waiting out the readers, so a reader inside the read section of
\* nvfs_mgroup_get never dereferences freed storage.
C5_ReadersNeverSeeFreed ==
    \A t \in Threads : InRcuRead(t) /\ th[t].cur # NULL => Allocated(th[t].cur)

\* C8: a teardown triggered from nvfs_vma_close never waits for quiescence
\* inside the callback: the thread running nvfs_vma_close is never inside
\* the synchronize_rcu / kfree part of nvfs_mgroup_free.
C8_CloseNeverWaits ==
    \A t \in Threads : th[t].op = "vma_close" => th[t].pc \notin {"free_unlink", "free_mem"}

\* C3: in every reachable state no two groups linked in the registry have the
\* same base_index, whatever the interleaving of inserts and teardowns.
C3_UniqueKeys ==
    \A a \in hash : \A b \in hash :
        a # b => mgroup[a].base_index # mgroup[b].base_index

\* two groups are linked, the second one by an insert whose first probe
\* collided with the first
C3_TwoLinkedAfterCollision ==
    /\ Cardinality(hash) = 2
    /\ \E t \in Mappers : th[t].pc = "mmap_unlock" /\ th[t].probes >= 2
                          /\ th[t].nvfs_new_mgroup = NULL

\* C6: insert probes at most 10 keys, all under the lock; it links the new
\* group with ref 1 under the first probed key that is not in the registry;
\* when all 10 probes collide it fails with -ENOMEM, having left the registry
\* as it was and having released every reference its probes took.
C6_InsertProbes ==
    [][\A t \in Mappers :
         LET c == th'[t]
             new == th[t].nvfs_new_mgroup
         IN  /\ c.op = "mmap" => c.probes <= 10
             \* the probes run under the lock, holding no reference in between
             /\ c.pc \in {"mmap_probe", "mmap_link"} => lock' = t /\ c.net = 0
             \* a collided group is released before the next probe
             /\ th[t].pc = "mmap_probe" /\ c.pc = "put" =>
                    /\ c.nvfs_mgroup \in hash
                    /\ mgroup[c.nvfs_mgroup].base_index = c.base_index
                    /\ c.net = 1
             \* the key taken is free, and every probe before it collided
             /\ c.pc = "mmap_link" =>
                    /\ \A s \in hash' : mgroup'[s].base_index # c.base_index
                    /\ c.probes + c.tries = 11
             \* the link: ref 1 under that key
             /\ th[t].pc = "mmap_link" /\ c.pc = "mmap_unlock" =>
                    /\ hash' = hash \cup {new}
                    /\ mgroup'[new].ref = 1
                    /\ mgroup'[new].base_index = th[t].base_index
             \* the registry changes under the lock of t only by that link
             /\ lock = t /\ th[t].pc # "mmap_link" => hash' = hash
             \* all probes collided: the call fails, nothing linked or held
             /\ c.pc = "mmap_unlock" /\ c.nvfs_new_mgroup # NULL =>
                    /\ c.probes = 10
                    /\ c.net = 0
                    /\ c.nvfs_new_mgroup \notin hash'
             /\ th[t].pc = "mmap_unlock" /\ c.pc # "mmap_unlock" /\ new # NULL =>
                    /\ c.pc = "ret" /\ c.ret = -ENOMEM
                    /\ hash' = hash
                    /\ GroupObj(new) \notin heap'
    ]_vars

\* an insert has failed after 10 collisions and is about to return
C6_FailedAfterTenCollisions ==
    \E t \in Mappers : /\ th[t].pc = "ret" /\ th[t].op = "mmap"
                       /\ th[t].ret = -ENOMEM /\ th[t].probes = 10
                       /\ th[t].nvfs_new_mgroup = NULL /\ hash # {}

\* C9: a mapping call whose length is above the maximum region, or below
\* 64 KiB and no multiple of 4 KiB, or at least 64 KiB and no multiple of
\* 64 KiB, or whose flags lack read or write, or have exec, or lack shared, is
\* rejected at once with -EINVAL: no group is allocated and the registry is
\* unchanged (lengths 5000 and 70000 among them).
C9_RejectedSynchronously ==
    [][\A t \in Mappers :
         LET c == th'[t]
             rejected ==
                 \/ c.length > 4096 * 4096
                 \/ c.length < 65536 /\ c.length % 4096 # 0
                 \/ c.length >= 65536 /\ c.length % 65536 # 0
                 \/ ~({"VM_READ", "VM_WRITE"} \subseteq c.vm_flags)
                 \/ "VM_EXEC" \in c.vm_flags
                 \/ "VM_SHARED" \notin c.vm_flags
         IN  th[t].pc = "idle" /\ c.op = "mmap" /\ rejected =>
                /\ c.pc = "ret" /\ c.ret = -EINVAL
                /\ c.nvfs_new_mgroup = NULL /\ c.nvfs_mgroup = NULL
                /\ heap' = heap /\ hash' = hash /\ mgroup' = mgroup
    ]_vars

\* a call with length 70000 has been rejected while another mapping exists
C9_Rejected70000 ==
    \E t \in Mappers : /\ th[t].pc = "ret" /\ th[t].op = "mmap"
                       /\ th[t].length = 70000 /\ th[t].ret = -EINVAL
                       /\ hash # {}

\* C7: when nvfs_free_gpu_info returns non-zero for a group in teardown, the
\* teardown is aborted: it returns without unlinking the group and without
\* freeing any of its storage.
C7_AbortOnGpuInfoFailure ==
    [][\A t \in Threads :
         LET c == th'[t]
         IN  /\ c.gpu_rc # 0 => c.pc = "free_abort"
             /\ th[t].pc = "free" /\ c.pc # "free" /\ c.gpu_rc # 0 =>
                    hash' = hash /\ heap' = heap /\ mgroup' = mgroup
             /\ th[t].pc = "free_abort" /\ c.pc # "free_abort" =>
                    /\ c.pc = th[t].cont
                    /\ hash' = hash /\ heap' = heap /\ mgroup' = mgroup
    ]_vars

\* a teardown has been aborted: the group has no reference, is still linked
\* and still allocated
C7_TeardownAborted ==
    \E t \in Threads :
        /\ th[t].pc = "free_abort" /\ th[t].gpu_rc # 0
        /\ th[t].nvfs_mgroup \in hash
        /\ Allocated(th[t].nvfs_mgroup)
        /\ mgroup[th[t].nvfs_mgroup].ref = 0

\* C10 as stated: when the mapping call fails after the group was registered,
\* then on return the group is not in the registry and its storage and its
\* materialized units are freed, and an error is returned.
C10_GoneOnFailure ==
    \A t \in Mappers :
        th[t].pc = "ret" /\ th[t].op = "mmap" /\ th[t].ret # 0
        /\ th[t].nvfs_mgroup # NULL =>
            /\ th[t].nvfs_mgroup \notin hash
            /\ \A o \in heap : o[2] # th[t].nvfs_mgroup

\* C10: when the mapping call fails after the group was registered, it
\* returns -ENOMEM having released the reference of the registration; on
\* return the group is unlinked with its storage and its materialized units
\* freed, unless a reference of another holder is outstanding or another
\* thread is in the teardown of the group.
C10_ReleasedOnFailure ==
    \A t \in Mappers :
        th[t].pc = "ret" /\ th[t].op = "mmap" /\ th[t].ret # 0
        /\ th[t].nvfs_mgroup # NULL =>
            LET g == th[t].nvfs_mgroup
            IN  /\ th[t].ret = -ENOMEM
                /\ th[t].net = 0
                /\ \/ g \notin hash /\ \A o \in heap : o[2] # g
                   \/ out[g] > 0
                   \/ \E u \in Threads \ {t} :
                         /\ th[u].nvfs_mgroup = g
                         /\ th[u].pc \in {"free", "free_unlink", "free_mem"}

\* the call failed at vm_insert_page of the second unit, with two units
\* materialized, and has torn the group down
C10_FailedAndFreed ==
    \E t \in Mappers :
        /\ th[t].pc = "ret" /\ th[t].op = "mmap" /\ th[t].ret = -ENOMEM
        /\ th[t].nvfs_mgroup # NULL /\ th[t].length = 131072
        /\ th[t].nvfs_mgroup \notin hash
        /\ \A o \in heap : o[2] # th[t].nvfs_mgroup
        /\ th[t].net = 0

\* C11: right after every successful mapping establishment,
\* nvfs_folios_count = ceil(nvfs_blocks_count / 16), for every accepted length.
C11_UnitCount ==
    \A t \in Mappers :
        th[t].pc = "ret" /\ th[t].op = "mmap" /\ th[t].ret = 0 =>
            LET r == mgroup[th[t].nvfs_mgroup]
            IN  /\ r.nvfs_blocks_count > 0
                /\ 16 * r.nvfs_folios_count >= r.nvfs_blocks_count
                /\ 16 * (r.nvfs_folios_count - 1) < r.nvfs_blocks_count

\* a mapping of one block has been established: one block, one unit
C11_OneBlockOneUnit ==
    \E t \in Mappers :
        /\ th[t].pc = "ret" /\ th[t].op = "mmap" /\ th[t].ret = 0
        /\ th[t].length = 4096
        /\ mgroup[th[t].nvfs_mgroup].nvfs_blocks_count = 1
        /\ mgroup[th[t].nvfs_mgroup].nvfs_folios_count = 1

\* C12: after a successful mapping establishment every block i in
\* [0, nvfs_blocks_count) has the magic, is in state NVFS_IO_ALLOC, refers to
\* the materialized unit floor(i/16) and has folio_offset (i mod 16) * 4096,
\* below the unit size; the group is linked, and its count is the one
\* reference of the mapping plus those that concurrent probes hold.
C12_MetadataAfterMmap ==
    \A t \in Mappers :
        th[t].pc = "ret" /\ th[t].op = "mmap" /\ th[t].ret = 0 =>
            LET g == th[t].nvfs_mgroup
                r == mgroup[g]
                others == {u \in Threads \ {t} :
                              th[u].pc = "put" /\ th[u].nvfs_mgroup = g}
            IN  /\ Len(r.nvfs_metadata) = r.nvfs_blocks_count
                /\ r.nvfs_blocks_count = th[t].length \div 4096
                /\ \A i \in 0..(r.nvfs_blocks_count - 1) :
                      LET md == r.nvfs_metadata[i + 1]
                      IN  /\ md.nvfs_start_magic = NVFS_START_MAGIC
                          /\ md.nvfs_state = NVFS_IO_ALLOC
                          /\ md.folio # NULL
                          /\ md.folio = r.nvfs_folios[(i \div 16) + 1]
                          /\ <<"folio", g, (i \div 16) + 1>> \in heap
                          /\ md.folio_offset = (i % 16) * 4096
                          /\ md.folio_offset < 65536
                /\ g \in hash
                /\ r.ref = 1 + Cardinality(others)
                /\ th[t].net = 1

\* a mapping of two units has been established and no other thread holds a
\* reference: 32 blocks, reference count 1
C12_TwoUnitsMapped ==
    \E t \in Mappers :
        /\ th[t].pc = "ret" /\ th[t].op = "mmap" /\ th[t].ret = 0
        /\ th[t].length = 131072
        /\ mgroup[th[t].nvfs_mgroup].nvfs_blocks_count = 32
        /\ mgroup[th[t].nvfs_mgroup].ref = 1

\* C13: over every sequence of pin, queueing, DMA-start and completion
\* calls, a block that becomes NVFS_IO_QUEUED was NVFS_IO_INIT or
\* NVFS_IO_DONE just before, and a block that is NVFS_IO_DMA_START after a
\* step was NVFS_IO_QUEUED or NVFS_IO_DMA_START before it.
C13_QueuedAndDmaStartEntries ==
    [][\A g \in Slots :
         \A k \in (DOMAIN mgroup[g].nvfs_metadata) \cap (DOMAIN mgroup'[g].nvfs_metadata) :
            LET before == mgroup[g].nvfs_metadata[k].nvfs_state
                after == mgroup'[g].nvfs_metadata[k].nvfs_state
            IN  /\ after = NVFS_IO_QUEUED /\ before # NVFS_IO_QUEUED
                     => before \in {NVFS_IO_INIT, NVFS_IO_DONE}
                /\ after = NVFS_IO_DMA_START
                     => before \in {NVFS_IO_QUEUED, NVFS_IO_DMA_START}]_vars

\* a DMA-start call has returned with success on a buffer that has blocks
\* started and blocks still queued
C13_QueuedAndStarted ==
    \E t \in IoThreads :
        /\ th[t].pc = "dma_done"
        /\ th[t].op = "from_page_range"
        /\ LET r == mgroup[th[t].nvfs_mgroup]
           IN  /\ \E i \in 0..(r.nvfs_blocks_count - 1) : BlockState(r, i) = NVFS_IO_DMA_START
               /\ \E i \in 0..(r.nvfs_blocks_count - 1) : BlockState(r, i) = NVFS_IO_QUEUED

C15_ActiveRangeAfterQueue ==
    \A t \in IoThreads :
        th[t].pc = "ret" /\ th[t].op = "fill_mpages" /\ th[t].ret = 0 =>
            LET r == mgroup[th[t].nvfs_mgroup]
                count == th[t].args[1]
                first == th[t].args[2] \div NVFS_BLOCK_SIZE
                active == r.nvfsio.nvfs_active_blocks_start
                              ..r.nvfsio.nvfs_active_blocks_end
            IN  /\ r.nvfsio.nvfs_active_blocks_start = first
                /\ r.nvfsio.nvfs_active_blocks_end = first + count - 1
                /\ Cardinality(active) = count
                /\ \A i \in 0..(r.nvfs_blocks_count - 1) :
                      BlockState(r, i) = IF i \in active THEN NVFS_IO_QUEUED
                                         ELSE NVFS_IO_INIT

\* C16: nvfs_mgroup_fill_mpages fails with -EIO exactly when count exceeds
\* the block count, or a non-zero start offset is not block-aligned, exceeds
\* the accelerator page size minus one block, leaves no room for count blocks
\* inside the accelerator page, or makes the offset in blocks plus count
\* exceed the block count; on such a failure no block state and neither
\* bound of the active range is modified.
C16_QueueFailsExactlyWhen ==
    [][\A t \in IoThreads :
         th[t].pc = "idle" /\ th'[t].op = "fill_mpages" =>
            LET g == th'[t].nvfs_mgroup
                count == th'[t].args[1]
                o == th'[t].args[2]
                rejected ==
                    \/ count > mgroup[g].nvfs_blocks_count
                    \/ /\ o # 0
                       /\ \/ o % NVFS_BLOCK_SIZE # 0
                          \/ o > GPU_PAGE_SIZE - NVFS_BLOCK_SIZE
                          \/ o + count * NVFS_BLOCK_SIZE > GPU_PAGE_SIZE
                          \/ (o \div NVFS_BLOCK_SIZE) + count > mgroup[g].nvfs_blocks_count
            IN  /\ th'[t].ret = IF rejected THEN -EIO ELSE 0
                /\ rejected =>
                      /\ th'[t].pc = "ret"
                      /\ mgroup'[g].nvfs_metadata = mgroup[g].nvfs_metadata
                      /\ mgroup'[g].nvfsio.nvfs_active_blocks_start
                             = mgroup[g].nvfsio.nvfs_active_blocks_start
                      /\ mgroup'[g].nvfsio.nvfs_active_blocks_end
                             = mgroup[g].nvfsio.nvfs_active_blocks_end]_vars

\* a queueing at a start offset that is not block-aligned has failed, on a
\* buffer that has queued blocks
C16_MisalignedRejected ==
    \E t \in IoThreads :
        /\ th[t].pc = "ret"
        /\ th[t].op = "fill_mpages"
        /\ th[t].args = <<1, 100>>
        /\ th[t].ret = -EIO
        /\ \E i \in 0..(mgroup[th[t].nvfs_mgroup].nvfs_blocks_count - 1) :
              BlockState(mgroup[th[t].nvfs_mgroup], i) = NVFS_IO_QUEUED

\* C17: a DMA-start call for n blocks at byte offset o of unit u, in the
\* range form and in the byte-range form, examines exactly the blocks
\* u * 16 + floor(o / 4096) .. u * 16 + floor(o / 4096) + n - 1: it changes
\* no other block, and when it succeeds all of them are NVFS_IO_DMA_START.
C17_ExaminesBlocksOfUnit ==
    [][\A t \in IoThreads :
         /\ th[t].pc \in {"idle", "dma_folio"}
         /\ th'[t].op \in {"from_page_range", "set_dma_state"}
         /\ th'[t].exit # "lookup"
         =>
            LET g == th'[t].nvfs_mgroup
                u == th'[t].args[1]
                o == th'[t].args[2]
                first == u * 16 + o \div 4096
                last == IF th'[t].op = "from_page_range"
                        THEN first + th'[t].args[3] - 1
                        ELSE u * 16 + (o + th'[t].args[3] - 1) \div 4096
            IN  /\ \A i \in 0..(mgroup[g].nvfs_blocks_count - 1) :
                      BlockState(mgroup'[g], i) # BlockState(mgroup[g], i)
                          => i \in first..last
                /\ th'[t].ret = 0 =>
                      \A i \in first..last :
                          /\ i < mgroup[g].nvfs_blocks_count
                          /\ BlockState(mgroup'[g], i) = NVFS_IO_DMA_START]_vars

\* C18: a DMA-start call that meets a block that is neither NVFS_IO_QUEUED
\* nor NVFS_IO_DMA_START sets that block, and no other, to
\* NVFS_IO_DMA_ERROR, gives back the reference taken for the call, so that
\* the call leaves the count as it found it, and returns -EIO; a block that
\* is already NVFS_IO_DMA_START never stops the call at the state check and
\* is NVFS_IO_DMA_START after a call that succeeds.
C18_ErrorExitOfDmaStart ==
    [][\A t \in IoThreads :
         LET g == th'[t].nvfs_mgroup
             dma == {"from_page_range", "from_folio", "set_dma_state"}
         IN  /\ /\ th[t].pc \in {"idle", "dma_folio"}
                /\ th'[t].op \in dma
                /\ th'[t].exit = "state"
                =>
                   /\ BlockState(mgroup[g], th'[t].blk)
                          \notin {NVFS_IO_QUEUED, NVFS_IO_DMA_START}
                   /\ \A i \in 0..(mgroup[g].nvfs_blocks_count - 1) :
                         (BlockState(mgroup'[g], i) = NVFS_IO_DMA_ERROR
                          /\ BlockState(mgroup[g], i) # NVFS_IO_DMA_ERROR)
                             => i = th'[t].blk
                   /\ BlockState(mgroup'[g], th'[t].blk) = NVFS_IO_DMA_ERROR
                   /\ th'[t].ret = -EIO
                   /\ th'[t].net = 1
                   /\ th'[t].pc = "put"
             /\ /\ th'[t].pc = "ret"
                /\ th[t].pc # "ret"
                /\ th'[t].op \in dma
                /\ th'[t].ret = -EIO
                =>
                   /\ th[t].pc = "put"
                   /\ mgroup'[g].ref = mgroup[g].ref - 1
                   /\ th'[t].net = 0
             /\ /\ th[t].pc \in {"idle", "dma_folio"}
                /\ th'[t].op \in dma
                /\ th'[t].ret = 0
                =>
                   \A i \in 0..(mgroup[g].nvfs_blocks_count - 1) :
                       BlockState(mgroup[g], i) = NVFS_IO_DMA_START
                           => BlockState(mgroup'[g], i) = NVFS_IO_DMA_START]_vars

\* a DMA-start call that stopped at the state check has returned -EIO with
\* its reference given back, the block marked, and blocks started by earlier
\* calls on the buffer
C18_FailedCallReturned ==
    \E t \in IoThreads :
        /\ th[t].pc = "ret"
        /\ th[t].op \in {"from_page_range", "set_dma_state"}
        /\ th[t].exit = "state"
        /\ th[t].ret = -EIO
        /\ th[t].net = 0
        /\ LET r == mgroup[th[t].nvfs_mgroup]
           IN  /\ BlockState(r, th[t].blk) = NVFS_IO_DMA_ERROR
               /\ \E i \in 0..(r.nvfs_blocks_count - 1) :
                     BlockState(r, i) = NVFS_IO_DMA_START

\* C19: when the completion of an operation whose blocks were all queued is
\* given a byte count that covers fewer blocks than were issued, every block of the active range with an index greater
\* than last_done_block = active start + ceil(bytes / 4096) - 1 is
\* NVFS_IO_INIT afterwards, not NVFS_IO_DONE.
C19_UnreachedBlocksLeftInit ==
    [][\A t \in IoThreads :
         /\ th[t].pc = "idle"
         /\ th'[t].op = "check_and_set"
         /\ th'[t].pc = "ret"
         /\ th'[t].args[1] >= 0
         /\ ~th'[t].args[3]
         =>
            LET g == th'[t].nvfs_mgroup
                first == mgroup[g].nvfsio.nvfs_active_blocks_start
                last == mgroup[g].nvfsio.nvfs_active_blocks_end
                done_blocks == (th'[t].args[1] + 4095) \div 4096
            IN  /\ \A i \in first..last :
                       BlockState(mgroup[g], i) \in {NVFS_IO_QUEUED, NVFS_IO_DMA_START}
                /\ done_blocks < last - first + 1
                =>
                   \A i \in (first + done_blocks)..last :
                       BlockState(mgroup'[g], i) = NVFS_IO_INIT]_vars

\* C20: on the completion of a read with validation, as long as there are at
\* most NVFS_MAX_HOLE_REGIONS of them, the hole records published are exactly
\* the maximal runs of consecutive blocks of [active start, last_done_block]
\* that are not NVFS_IO_DMA_START, in order, each with its start relative to
\* the active start and its length, and the published count of holes is the
\* number of the runs; without a run nothing is published unless the sparse
\* check was already on, and then the count published is 0.
C20_HolesAreMaximalRuns ==
    [][\A t \in IoThreads :
         /\ th[t].pc = "idle"
         /\ th'[t].op = "check_and_set"
         /\ th'[t].pc = "ret"
         /\ th'[t].args[1] >= 0
         /\ th'[t].args[2]
         /\ mgroup[th'[t].nvfs_mgroup].nvfsio.op = "READ"
         =>
            LET g == th'[t].nvfs_mgroup
                first == mgroup[g].nvfsio.nvfs_active_blocks_start
                last == mgroup[g].nvfsio.nvfs_active_blocks_end
                done_blocks == (th'[t].args[1] + 4095) \div 4096
                last_done_block == IF done_blocks < last - first + 1
                                   THEN first + done_blocks - 1
                                   ELSE last
                holes == {i \in first..last_done_block :
                             BlockState(mgroup[g], i) # NVFS_IO_DMA_START}
                starts == {i \in holes : i - 1 \notin holes}
                npages(s) == Cardinality({j \in holes :
                                 j >= s /\ \A m \in s..j : m \in holes})
                rank(s) == Cardinality({x \in starts : x <= s})
                published == mgroup'[g].sparse
            IN  Cardinality(starts) <= NVFS_MAX_HOLE_REGIONS =>
                  IF starts = {}
                  THEN \/ published = mgroup[g].sparse
                       \/ published.nholes = 0
                  ELSE /\ published.nholes = Cardinality(starts)
                       /\ \A s \in starts :
                             published.hole[rank(s)] =
                                 [start |-> s - first, npages |-> npages(s)]]_vars

\* a read of 10 blocks of which blocks 2, 3 and 7 never started their DMA has
\* completed in full: two holes are published, (2, 2) and (7, 1)
C20_TwoHolesPublished ==
    \E t \in IoThreads :
        /\ th[t].pc = "ret"
        /\ th[t].op = "check_and_set"
        /\ th[t].args = <<40960, TRUE, FALSE, FALSE, TRUE>>
        /\ mgroup[th[t].nvfs_mgroup].sparse.nholes = 2
        /\ mgroup[th[t].nvfs_mgroup].sparse.hole[1] = [start |-> 2, npages |-> 2]
        /\ mgroup[th[t].nvfs_mgroup].sparse.hole[2] = [start |-> 7, npages |-> 1]

\* C21 as stated: on the validated completion of a read with more maximal
\* runs of blocks that never started their DMA than NVFS_MAX_HOLE_REGIONS,
\* whether or not the caller lets the completion update the result, the
\* records published are the first NVFS_MAX_HOLE_REGIONS runs, the count
\* published is NVFS_MAX_HOLE_REGIONS and no record lies past it, and the
\* result of the operation is cut to the bytes before the first run that has
\* no record (or is -EIO).
C21_TruncatesWhateverUpdate ==
    [][\A t \in IoThreads :
         /\ th[t].pc = "idle"
         /\ th'[t].op = "check_and_set"
         /\ th'[t].pc = "ret"
         /\ th'[t].args[1] >= 0
         /\ th'[t].args[2]
         /\ mgroup[th'[t].nvfs_mgroup].nvfsio.op = "READ"
         =>
            LET g == th'[t].nvfs_mgroup
                first == mgroup[g].nvfsio.nvfs_active_blocks_start
                last == mgroup[g].nvfsio.nvfs_active_blocks_end
                done_blocks == (th'[t].args[1] + 4095) \div 4096
                last_done_block == IF done_blocks < last - first + 1
                                   THEN first + done_blocks - 1
                                   ELSE last
                holes == {i \in first..last_done_block :
                             BlockState(mgroup[g], i) # NVFS_IO_DMA_START}
                starts == {i \in holes : i - 1 \notin holes}
                npages(s) == Cardinality({j \in holes :
                                 j >= s /\ \A m \in s..j : m \in holes})
                rank(s) == Cardinality({x \in starts : x <= s})
                unrecorded == {i \in holes :
                                 \E s \in starts : /\ rank(s) > NVFS_MAX_HOLE_REGIONS
                                                   /\ s <= i}
                published == mgroup'[g].sparse
                result == mgroup'[g].nvfsio.ret
            IN  Cardinality(starts) > NVFS_MAX_HOLE_REGIONS =>
                  /\ published.nholes = NVFS_MAX_HOLE_REGIONS
                  /\ DOMAIN published.hole = 1..NVFS_MAX_HOLE_REGIONS
                  /\ \A s \in starts :
                        rank(s) <= NVFS_MAX_HOLE_REGIONS =>
                           published.hole[rank(s)] =
                               [start |-> s - first, npages |-> npages(s)]
                  /\ \/ /\ result = (Least(unrecorded) - first) * 4096
                        /\ result < th'[t].args[1]
                        /\ \A i \in unrecorded : result <= (i - first) * 4096
                     \/ /\ result = -EIO
                        /\ \E i \in (last_done_block + 1)..last :
                              BlockState(mgroup[g], i)
                                  \notin {NVFS_IO_QUEUED, NVFS_IO_DMA_START}
                  /\ th'[t].ret = result]_vars

\* C21: on the validated completion, with result update, of a read with
\* more maximal runs of blocks that never started their DMA than
\* NVFS_MAX_HOLE_REGIONS, the
\* records published are the first NVFS_MAX_HOLE_REGIONS runs, each with its
\* start and length, the count published is NVFS_MAX_HOLE_REGIONS and no
\* record lies past it, and the result of the operation is cut to the bytes
\* before the first run that has no record (or is -EIO, when a block past
\* last_done_block was neither queued nor started), so that the bytes
\* reported cover no block of a run without a record.
C21_HoleLimitTruncates ==
    [][\A t \in IoThreads :
         /\ th[t].pc = "idle"
         /\ th'[t].op = "check_and_set"
         /\ th'[t].pc = "ret"
         /\ th'[t].args[1] >= 0
         /\ th'[t].args[2]
         /\ th'[t].args[5]
         /\ mgroup[th'[t].nvfs_mgroup].nvfsio.op = "READ"
         =>
            LET g == th'[t].nvfs_mgroup
                first == mgroup[g].nvfsio.nvfs_active_blocks_start
                last == mgroup[g].nvfsio.nvfs_active_blocks_end
                done_blocks == (th'[t].args[1] + 4095) \div 4096
                last_done_block == IF done_blocks < last - first + 1
                                   THEN first + done_blocks - 1
                                   ELSE last
                holes == {i \in first..last_done_block :
                             BlockState(mgroup[g], i) # NVFS_IO_DMA_START}
                starts == {i \in holes : i - 1 \notin holes}
                npages(s) == Cardinality({j \in holes :
                                 j >= s /\ \A m \in s..j : m \in holes})
                rank(s) == Cardinality({x \in starts : x <= s})
                unrecorded == {i \in holes :
                                 \E s \in starts : /\ rank(s) > NVFS_MAX_HOLE_REGIONS
                                                   /\ s <= i}
                published == mgroup'[g].sparse
                result == mgroup'[g].nvfsio.ret
            IN  Cardinality(starts) > NVFS_MAX_HOLE_REGIONS =>
                  /\ published.nholes = NVFS_MAX_HOLE_REGIONS
                  /\ DOMAIN published.hole = 1..NVFS_MAX_HOLE_REGIONS
                  /\ \A s \in starts :
                        rank(s) <= NVFS_MAX_HOLE_REGIONS =>
                           published.hole[rank(s)] =
                               [start |-> s - first, npages |-> npages(s)]
                  /\ \/ /\ result = (Least(unrecorded) - first) * 4096
                        /\ result < th'[t].args[1]
                        /\ \A i \in unrecorded : result <= (i - first) * 4096
                     \/ /\ result = -EIO
                        /\ \E i \in (last_done_block + 1)..last :
                              BlockState(mgroup[g], i)
                                  \notin {NVFS_IO_QUEUED, NVFS_IO_DMA_START}
                  /\ th'[t].ret = result]_vars

\* a read came back with two holes published, the maximum, and with fewer
\* bytes than the device reported: the bytes before a third hole
C21_ThirdHoleCutsResult ==
    \E t \in IoThreads :
        /\ th[t].pc = "ret"
        /\ th[t].op = "check_and_set"
        /\ th[t].args = <<40960, TRUE, FALSE, FALSE, TRUE>>
        /\ mgroup[th[t].nvfs_mgroup].sparse.nholes = NVFS_MAX_HOLE_REGIONS
        /\ th[t].ret > 0
        /\ th[t].ret < 40960

C24_LookupOfQueuedBlockFindsGroup ==
    [][\A t \in IoThreads :
         /\ th[t].pc = "idle"
         /\ \/ th'[t].op = "from_folio"
            \/ /\ th'[t].op = "is_gpu_folio"
               /\ th'[t].args[1] \in {"unit0", "unit1"}
         =>
            LET g == IoGroup(t)
                r == mgroup[g]
                u == IF th'[t].op = "from_folio" THEN th'[t].args[1]
                     ELSE IF th'[t].args[1] = "unit1" THEN 1 ELSE 0
                folio == UnitFolio(mgroup, g, u)
                queued == {b \in (u * 16)..(u * 16 + 15) :
                              /\ b >= r.nvfsio.nvfs_active_blocks_start
                              /\ b <= r.nvfsio.nvfs_active_blocks_end
                              /\ BlockState(r, b) = NVFS_IO_QUEUED}
            IN  queued # {} =>
                   /\ th'[t].exit = "none"
                   /\ th'[t].ret >= 0
                   /\ th'[t].nvfs_mgroup = g
                   /\ r.base_index = folio.index \div (2 ^ NVFS_MAX_SHADOW_PAGES_ORDER)
                   /\ r.nvfs_metadata[u * 16 + 1].folio = folio.ptr]_vars

\* C25: the reverse lookup of a unit of a registered group returns the group
\* if and only if the blocks of the unit, 16u .. 16u + 15 for unit u, meet
\* the active range; for a unit whose blocks are all outside the active range
\* it returns no handle.
C25_AcceptsUnitsOfActiveRange ==
    [][\A t \in IoThreads :
         /\ th[t].pc = "idle"
         /\ th'[t].op = "is_gpu_folio"
         /\ th'[t].args[1] \in {"unit0", "unit1"}
         =>
            LET g == IoGroup(t)
                nvfsio == mgroup[g].nvfsio
                u == IF th'[t].args[1] = "unit1" THEN 1 ELSE 0
                meets == \E b \in (u * 16)..(u * 16 + 15) :
                            /\ b >= nvfsio.nvfs_active_blocks_start
                            /\ b <= nvfsio.nvfs_active_blocks_end
            IN  /\ th'[t].exit = "none" <=> meets
                /\ ~meets => th'[t].exit = "lookup"]_vars

\* C26: nvfs_check_gpu_folio_and_error returns 0 exactly when the folio is no
\* unit of a registered group, -1 exactly when it is one and a block it backs
\* is NVFS_IO_DMA_ERROR, and 1 exactly when it is one and none of its blocks
\* is NVFS_IO_DMA_ERROR.
C26_ProbeReportsDmaError ==
    [][\A t \in IoThreads :
         /\ th[t].pc = "idle"
         /\ th'[t].op = "check_gpu_folio_and_error"
         =>
            LET folio == ProbeFolio(mgroup, IoGroup(t), th'[t].args[1])
                owners == {g \in hash :
                             /\ folio.mapping = NULL
                             /\ mgroup[g].base_index
                                   = folio.index \div NVFS_MAX_SHADOW_PAGES
                             /\ \E u \in 0..(mgroup[g].nvfs_folios_count - 1) :
                                   /\ u = folio.index % NVFS_MAX_SHADOW_PAGES
                                   /\ mgroup[g].nvfs_folios[u + 1] = folio.ptr}
                failed == \E g \in owners :
                             \E b \in 0..(mgroup[g].nvfs_blocks_count - 1) :
                                /\ mgroup[g].nvfs_metadata[b + 1].folio = folio.ptr
                                /\ BlockState(mgroup[g], b) = NVFS_IO_DMA_ERROR
            IN  /\ th'[t].ret = 0 <=> owners = {}
                /\ th'[t].ret = -1 <=> (owners # {} /\ failed)
                /\ th'[t].ret = 1 <=> (owners # {} /\ ~failed)]_vars

\* C27 as stated: while a block of a group is NVFS_IO_DMA_ERROR the group is
\* unusable: no nvfs_mgroup_fill_mpages of one block or more on it succeeds
\* and no validated completion on it returns without an error.
C27_NoIoAfterDmaError ==
    [][\A t \in IoThreads :
         /\ th[t].pc = "idle"
         /\ th'[t].op \in {"fill_mpages", "check_and_set"}
         /\ \E b \in 0..(mgroup[th'[t].nvfs_mgroup].nvfs_blocks_count - 1) :
               BlockState(mgroup[th'[t].nvfs_mgroup], b) = NVFS_IO_DMA_ERROR
         =>
            /\ (th'[t].op = "fill_mpages" /\ th'[t].args[1] >= 1)
                  => th'[t].pc = "bug" \/ th'[t].ret < 0
            /\ (th'[t].op = "check_and_set" /\ th'[t].args[2])
                  => th'[t].pc = "bug" \/ th'[t].ret < 0]_vars

\* C27, amended: a DMA-start call stopped by a block in a wrong state returns
\* -EIO and gives its reference back without freeing the group, which stays
\* registered; the NVFS_IO_DMA_ERROR mark does not disable the group: a later
\* nvfs_mgroup_fill_mpages whose block range holds no block in
\* NVFS_IO_DMA_ERROR and passes the argument checks succeeds and leaves no
\* block of the group in NVFS_IO_DMA_ERROR, and one whose range holds such a
\* block stops at BUG_ON.
C27_DmaErrorLastsUntilRequeue ==
    [][\A t \in IoThreads :
         LET g == th'[t].nvfs_mgroup IN
         /\ (th[t].pc \in {"idle", "dma_folio"} /\ th'[t].exit = "state")
               => /\ th'[t].ret = -EIO
                  /\ th'[t].pc = "put"
                  /\ g \in hash'
                  /\ GroupObj(g) \in heap'
         /\ (th[t].pc = "put" /\ th[t].exit = "state")
               => /\ th'[t].pc = "ret"
                  /\ th'[t].ret = -EIO
                  /\ mgroup'[g].ref >= 1
                  /\ g \in hash'
                  /\ GroupObj(g) \in heap'
         /\ (th[t].pc = "idle" /\ th'[t].op = "fill_mpages")
               => LET r == mgroup[g]
                      first == th'[t].args[2] \div NVFS_BLOCK_SIZE
                      range == {b \in first..(first + th'[t].args[1] - 1) :
                                   b < r.nvfs_blocks_count}
                      rejected == fill_mpages_fails(
                                      [r EXCEPT !.nvfsio.gpu_page_offset = th'[t].args[2]],
                                      th'[t].args[1])
                  IN  /\ (~rejected /\ \A b \in range :
                              BlockState(r, b) \in {NVFS_IO_INIT, NVFS_IO_DONE})
                         => /\ th'[t].pc = "ret"
                            /\ th'[t].ret = 0
                            /\ \A b \in 0..(r.nvfs_blocks_count - 1) :
                                  BlockState(mgroup'[g], b) # NVFS_IO_DMA_ERROR
                      /\ (~rejected /\ \E b \in range :
                              BlockState(r, b) = NVFS_IO_DMA_ERROR)
                         => th'[t].pc = "bug"]_vars

\* a DMA-start call has marked block 16 and returned -EIO; the group is
\* registered and both its references, of the mapping and of the pin, remain
C27_GroupAliveAfterViolation ==
    \E t \in IoThreads :
        /\ th[t].pc = "ret"
        /\ th[t].exit = "state"
        /\ th[t].ret = -EIO
        /\ th[t].nvfs_mgroup \in hash
        /\ mgroup[th[t].nvfs_mgroup].ref = 2
        /\ BlockState(mgroup[th[t].nvfs_mgroup], 16) = NVFS_IO_DMA_ERROR
        /\ mgroup[th[t].nvfs_mgroup].nvfsio.nvfs_active_blocks_end = 9

\* C28 as stated: nvfs_mgroup_fill_mpages of one block or more succeeds only
\* when no operation is outstanding on the group, that is, when no block of
\* the group is still NVFS_IO_QUEUED or NVFS_IO_DMA_START from a queueing
\* that no range-clearing completion has followed.
C28_QueueOnlyAfterReconcile ==
    [][\A t \in IoThreads :
         /\ th[t].pc = "idle"
         /\ th'[t].op = "fill_mpages"
         /\ th'[t].args[1] >= 1
         /\ th'[t].pc = "ret"
         /\ th'[t].ret = 0
         =>
            \A b \in 0..(mgroup[th'[t].nvfs_mgroup].nvfs_blocks_count - 1) :
               BlockState(mgroup[th'[t].nvfs_mgroup], b)
                   \notin {NVFS_IO_QUEUED, NVFS_IO_DMA_START}]_vars

\* C28, amended: nvfs_mgroup_fill_mpages succeeds only when every block of
\* its own range is NVFS_IO_INIT or NVFS_IO_DONE; when a block of the range is
\* still NVFS_IO_QUEUED or NVFS_IO_DMA_START from an operation that was not
\* completed the call stops at BUG_ON; and a completion that clears the active
\* range leaves every block of the range NVFS_IO_DONE, so that the range can
\* be queued again.
C28_QueueNeedsIdleRange ==
    [][\A t \in IoThreads :
         LET g == th'[t].nvfs_mgroup
             r == mgroup[g]
         IN
         /\ (th[t].pc = "idle" /\ th'[t].op = "fill_mpages")
               => LET first == th'[t].args[2] \div NVFS_BLOCK_SIZE
                      range == {b \in first..(first + th'[t].args[1] - 1) :
                                   b < r.nvfs_blocks_count}
                  IN  /\ (th'[t].pc = "ret" /\ th'[t].ret = 0)
                            => \A b \in range :
                                  BlockState(r, b) \in {NVFS_IO_INIT, NVFS_IO_DONE}
                      /\ (/\ th'[t].ret = 0
                          /\ \E b \in range : BlockState(r, b)
                                \in {NVFS_IO_QUEUED, NVFS_IO_DMA_START})
                            => th'[t].pc = "bug"
         /\ (/\ th[t].pc = "idle"
             /\ th'[t].op = "check_and_set"
             /\ th'[t].pc = "ret"
             /\ ~th'[t].args[3]
             /\ th'[t].args[1] # -ERESTARTSYS)
               => /\ mgroup'[g].nvfsio.nvfs_active_blocks_start = 0
                  /\ mgroup'[g].nvfsio.nvfs_active_blocks_end = 0
                  /\ \A b \in r.nvfsio.nvfs_active_blocks_start
                                ..r.nvfsio.nvfs_active_blocks_end :
                        BlockState(mgroup'[g], b) = NVFS_IO_DONE]_vars

\* a second queueing, of blocks 0 to 9, met block 0 still queued by the
\* operation before it and stopped at BUG_ON
C28_RequeueHitBug ==
    \E t \in IoThreads :
        /\ th[t].pc = "bug"
        /\ th[t].op = "fill_mpages"
        /\ th[t].args = <<10, 0>>
        /\ BlockState(mgroup[th[t].nvfs_mgroup], 0) \in {NVFS_IO_QUEUED, NVFS_IO_DMA_START}
        /\ mgroup[th[t].nvfs_mgroup].nvfsio.nvfs_active_blocks_end = 0

\* C29: nvfs_vma_close on a mapping that has a group releases the reference
\* from mmap exactly once, after releasing the pin reference if and only if
\* the phase it found was past IO_INIT and not IO_CALLBACK_END and the phase
\* after its termination request is IO_TERMINATED; it ends with
\* vm_private_data NULL, so that the callback, which does nothing without a
\* handle, cannot release again.
C29_CloseReleases ==
    [][\A t \in Threads :
         /\ (th[t].pc = "idle" /\ th'[t].op = "vma_close")
               => LET g == vma[t].vm_private_data
                      unpins == /\ mgroup[g].io_state > IO_INIT
                                /\ mgroup[g].io_state # IO_CALLBACK_END
                                /\ mgroup'[g].io_state = IO_TERMINATED
                  IN  /\ g # NULL
                      /\ th'[t].nvfs_mgroup = g
                      /\ th'[t].net = IF unpins THEN 2 ELSE 1
                      /\ th'[t].pc = IF unpins THEN "put" ELSE "close_done"
                      /\ unpins => th'[t].cont = "close_done"
         /\ (th[t].op = "vma_close" /\ th[t].pc = "put" /\ th'[t].pc # "put")
               => /\ th'[t].net = th[t].net - 1
                  /\ mgroup'[th[t].nvfs_mgroup].ref
                        = mgroup[th[t].nvfs_mgroup].ref - 1
         /\ (th[t].op = "vma_close" /\ th[t].pc # "put" /\ th'[t].pc # "put")
               => th'[t].net = th[t].net \/ th'[t].pc = "idle"
         /\ (th[t].pc = "close_done" /\ th'[t].pc # "close_done")
               => /\ th[t].net = 1
                  /\ th'[t].pc = "put"
                  /\ th'[t].cont = "close_end"
         /\ (th[t].pc = "close_end" /\ th'[t].pc # "close_end")
               => /\ th[t].net = 0
                  /\ vma'[t].vm_private_data = NULL
                  /\ ~vma'[t].mapped]_vars

\* the callback found an idle accelerator mapping, terminated it and released
\* the pin reference; the reference from mmap is still to be released
C29_ClosedAfterUnpin ==
    \E t \in Threads :
        /\ th[t].op = "vma_close"
        /\ th[t].pc = "close_done"
        /\ th[t].net = 1
        /\ mgroup[th[t].nvfs_mgroup].io_state = IO_TERMINATED
        /\ th[t].nvfs_mgroup \notin pinref
        /\ Allocated(th[t].nvfs_mgroup)

\* C30: a call of nvfs_mgroup_pin_shadow_pages that succeeds raises the
\* reference count of the group it returns by exactly one, sets its
\* cpu_base_vaddr to the address pinned and leaves every block of the group
\* NVFS_IO_INIT; a call that fails returns NULL and leaves the reference
\* count of every group as it was.
C30_PinCountsOneReference ==
    [][\A t \in Threads :
         (th[t].pc = "idle" /\ th'[t].op = "pin")
            => IF hnd'[t].n = 1
               THEN LET g == hnd'[t].mg
                    IN  /\ mgroup'[g].ref = mgroup[g].ref + 1
                        /\ \E m \in Threads :
                              /\ vma[m].vm_private_data = g
                              /\ mgroup'[g].cpu_base_vaddr = vm_start(m)
                        /\ mgroup'[g].nvfs_blocks_count >= 1
                        /\ \A i \in 1..mgroup'[g].nvfs_blocks_count :
                              mgroup'[g].nvfs_metadata[i].nvfs_state = NVFS_IO_INIT
                        /\ \A s \in Slots \ {g} : mgroup'[s].ref = mgroup[s].ref
               ELSE /\ th'[t].ret = NULL
                    /\ hnd'[t] = hnd[t]
                    /\ \A s \in Slots : mgroup'[s].ref = mgroup[s].ref]_vars

\* C31: the quiescence wait of the teardown is the expedited variant exactly
\* when the calling context may not sleep, and the ordinary variant otherwise.
C31_ExpeditedWhenAtomic ==
    [][\A t \in Threads :
         (th[t].pc = "free_unlink" /\ th'[t].pc = "free_mem")
            => /\ th'[t].rcu \in {"synchronize_rcu", "synchronize_rcu_expedited"}
               /\ (th'[t].rcu = "synchronize_rcu_expedited") <=> ~th'[t].may_sleep]_vars

\* C32: a lookup that finds a group whose accelerator phase is beyond
\* IO_IN_PROGRESS does not raise the group's reference count and hands no
\* handle to its caller.
C32_NoHandleAfterRelease ==
    [][\A t \in Threads :
         (/\ th[t].pc = "get_inc"
          /\ th'[t].pc # "get_inc"
          /\ th[t].cur # NULL
          /\ Allocated(th[t].cur)
          /\ mgroup[th[t].cur].io_state > IO_IN_PROGRESS)
            => /\ mgroup'[th[t].cur].ref = mgroup[th[t].cur].ref
               /\ hnd'[t].n = 0]_vars

\* C33: the teardown body is executed at most once for a group: the
\* reference count of a group never goes from 0 back to a positive value
\* (only the link of a new group sets it, to 1), and no two threads are in
\* nvfs_mgroup_free for the same group.
C33_TeardownAtMostOnce ==
    [][/\ \A s \in Slots :
            (Allocated(s) /\ mgroup[s].ref = 0 /\ mgroup'[s].ref > 0)
               => \E t \in Threads : /\ th[t].pc = "mmap_link"
                                     /\ th[t].nvfs_new_mgroup = s
       /\ \A t \in Threads : \A u \in Threads \ {t} :
            ~(/\ th'[t].pc \in {"free", "free_unlink", "free_mem"}
              /\ th'[u].pc \in {"free", "free_unlink", "free_mem"}
              /\ th'[t].nvfs_mgroup = th'[u].nvfs_mgroup)]_vars

\* C34: the thread that holds the registry lock during the collision retry
\* of insert never makes the last release of a collided group: it is never
\* inside nvfs_mgroup_free while it holds the lock.
C34_NoTeardownUnderLock ==
    \A t \in Threads :
        lock = t => th[t].pc \notin {"free", "free_abort", "free_unlink", "free_mem"}

\* C35: when nvfs_mgroup_mmap_internal returns an error, vm_private_data of
\* the mapping does not point to a group that has been freed.
C35_NoFreedGroupInFailedMapping ==
    \A t \in Mappers :
        (th[t].pc = "ret" /\ th[t].op = "mmap" /\ th[t].ret # 0)
           => /\ <<"vma", t>> \notin dangling
              /\ vma[t].vm_private_data # NULL => Allocated(vma[t].vm_private_data)

\* C36: the reverse lookups are reference-balanced.  From its call to its
\* return, nvfs_mgroup_from_folio, nvfs_mgroup_from_page_range and
\* nvfs_get_mgroup_from_vaddr raise the reference count of the group by
\* exactly one when they return a handle and leave it as it was when they
\* return NULL or an error; nvfs_is_gpu_folio and nvfs_gpu_index_from_folio,
\* whose lookup is __nvfs_mgroup_from_folio, always leave it as it was; no
\* other group's count changes.  (`net` is the thread's count of references
\* taken minus references given back in the call; the formula ties it to
\* the change of the group's count at every step.)
C36_ReverseLookupsBalanced ==
    [][\A t \in Threads :
         LET c == th'[t]
             g == c.nvfs_mgroup
             before == IF th[t].op = c.op THEN th[t].net ELSE 0
         IN  c.op \in {"from_folio", "from_page_range", "from_vaddr",
                       "is_gpu_folio", "gpu_index"}
                => /\ \A s \in Slots :
                        mgroup'[s].ref - mgroup[s].ref
                           = IF s = g THEN c.net - before ELSE 0
                   /\ g = NULL => c.net = 0
                   /\ c.pc \in {"put", "ret", "dma_folio", "dma_done"}
                   \* returned without a handle
                   /\ c.pc = "ret" => c.net = 0
                   \* returned a handle
                   /\ c.pc \in {"dma_folio", "dma_done"}
                         => /\ c.net = 1
                            /\ c.ret = 0
                            /\ c.op \in {"from_folio", "from_page_range", "from_vaddr"}]_vars

\* nvfs_get_mgroup_from_vaddr has returned the handle of the pinned buffer:
\* the count holds the references of mmap, of the pin and of the lookup
C36_VaddrReturnedHandle ==
    \E t \in Threads :
        /\ th[t].op = "from_vaddr"
        /\ th[t].pc = "dma_done"
        /\ th[t].net = 1
        /\ mgroup[th[t].nvfs_mgroup].ref = 3

\* C37: after a completion of an operation whose blocks were all queued or
\* started, the active range of the descriptor is cleared exactly when the
\* blocks of the active range were set to NVFS_IO_DONE, in process context
\* and in interrupt context alike.
C37_ClearedIffBlocksDone ==
    [][\A t \in IoThreads :
         LET g == th'[t].nvfs_mgroup
             first == mgroup[g].nvfsio.nvfs_active_blocks_start
             last == mgroup[g].nvfsio.nvfs_active_blocks_end
         IN  (/\ th[t].pc = "idle"
              /\ th'[t].op = "check_and_set"
              /\ th'[t].pc = "ret"
              /\ last > 0
              /\ first <= last
              /\ \A i \in first..last :
                    BlockState(mgroup[g], i) \in {NVFS_IO_QUEUED, NVFS_IO_DMA_START})
             => ((/\ mgroup'[g].nvfsio.nvfs_active_blocks_start = 0
                  /\ mgroup'[g].nvfsio.nvfs_active_blocks_end = 0)
                 <=> \A i \in first..last :
                        BlockState(mgroup'[g], i) = NVFS_IO_DONE)]_vars

\* C38: a completion that returns leaves a negative result of the operation
\* as it was, and leaves any result as it was when update_nvfsio is false;
\* otherwise the result becomes the error the loop detected if there is one,
\* else the byte limit of the hole array if it was reached, else it stays
\* the byte count the completion was given.
C38_ResultPrecedence ==
    [][\A t \in IoThreads :
         (/\ th[t].pc = "idle"
          /\ th'[t].op = "check_and_set"
          /\ th'[t].pc = "ret")
         => LET old == th'[t].args[1]
                new == mgroup'[th'[t].nvfs_mgroup].nvfsio.ret
                ret == th'[t].locals[1]
                sparse_read_bytes_limit == th'[t].locals[2]
            IN  /\ old < 0 => new = old
                /\ ~th'[t].args[5] => new = old
                /\ (old >= 0 /\ th'[t].args[5])
                     => /\ ret < 0 => new = ret
                        /\ (ret >= 0 /\ sparse_read_bytes_limit > 0)
                              => new = sparse_read_bytes_limit
                        /\ (ret >= 0 /\ sparse_read_bytes_limit <= 0)
                              => new = old]_vars

\* a read of 17 blocks completed with 40960 bytes, in which the loop both
\* reached the hole limit at 28672 bytes and detected an error: the result
\* is the error
C38_ErrorBeforeLimit ==
    \E t \in IoThreads :
        /\ th[t].pc = "ret"
        /\ th[t].op = "check_and_set"
        /\ th[t].args[1] = 40960
        /\ th[t].args[5]
        /\ th[t].locals = <<-EIO, 28672>>
        /\ mgroup[th[t].nvfs_mgroup].nvfsio.ret = -EIO

\* C39: a call of nvfs_check_gpu_folio_and_error that returns 1 lowers
\* dma_ref by one and, on balance, the reference count of the group by one
\* when dma_ref was positive, and changes neither when dma_ref was 0; a call
\* that returns 0 or -1 changes neither; dma_ref is never negative.  (`net`
\* is the thread's count of references taken minus references given back in
\* the call, tied to the change of the group's count at every step;
\* locals[1] is what atomic_dec_if_positive returned.)
C39_ProbeSettlesDmaRef ==
    [][/\ \A s \in Slots : mgroup[s].dma_ref >= 0 /\ mgroup'[s].dma_ref >= 0
       /\ \A t \in Threads :
            LET c == th'[t]
                g == c.nvfs_mgroup
                before == IF th[t].op = c.op THEN th[t].net ELSE 0
            IN  c.op = "check_gpu_folio_and_error"
                   => /\ \A s \in Slots :
                           /\ mgroup'[s].ref - mgroup[s].ref
                                 = IF s = g THEN c.net - before ELSE 0
                           /\ mgroup'[s].dma_ref - mgroup[s].dma_ref
                                 = IF s = g /\ th[t].pc = "dec_dma_ref"
                                            /\ mgroup[s].dma_ref > 0
                                   THEN -1 ELSE 0
                      /\ c.ret \in {0, -1} => th[t].pc # "dec_dma_ref"
                      /\ th[t].pc = "dec_dma_ref"
                            => /\ c.ret = 1
                               /\ c.locals[1] >= 0 <=> mgroup[g].dma_ref > 0
                      /\ (c.pc = "ret" /\ c.ret \in {0, -1}) => c.net = 0
                      /\ (c.pc = "ret" /\ th[t].pc # "ret" /\ c.ret = 1)
                            => c.net = IF c.locals[1] >= 0 THEN -1 ELSE 0]_vars

\* a probe has returned 1 for a unit of a group one of whose DMA mappings
\* was counted: dma_ref went from 1 to 0 and the probe gave back two
\* references for the one it took
C39_ProbeDroppedMapping ==
    \E t \in Threads :
        /\ th[t].op = "check_gpu_folio_and_error"
        /\ th[t].pc = "ret"
        /\ th[t].ret = 1
        /\ th[t].locals = <<0>>
        /\ th[t].net = -1
        /\ mgroup[th[t].nvfs_mgroup].dma_ref = 0
        /\ mgroup[th[t].nvfs_mgroup].ref = 2

\* C40: under fair scheduling, once the last reference of a group was
\* released and the accelerator release step of its teardown has succeeded,
\* the group is eventually unlinked from the registry and its storage is
\* eventually freed.
C40_TeardownCompletes ==
    \A t \in {"m1", "io1"} : \A g \in Slots :
        (th[t].pc = "free_unlink" /\ th[t].nvfs_mgroup = g)
           ~> (g \notin hash /\ GroupObj(g) \notin heap)

====
